---- MODULE Spec2Model ----
(***************************************************************************)
(* Model of the PipeWire capture plugin (plugins/linux-pipewire): the      *)
(* format catalog and format-parameter builder (pipewire-utils-video.c),   *)
(* the stream engine of pipewire.c with its sync and async processing      *)
(* paths, the async adapter with the decoder fallback and the export       *)
(* adapter (pipewire-stream-video-output.c).                               *)
(***************************************************************************)
EXTENDS Integers, Sequences, FiniteSets, TLC

(***************************************************************************)
(* Bounds of the model.                                                    *)
(***************************************************************************)
\* longest modifier list gs_query_dmabuf_modifiers_for_format hands back
MaxMods == 2
\* number of entries of a supported-format list in the pure format checks
MaxFormats == 2
\* number of buffers the producer may have queued at one process tick
MaxQueue == 2
\* largest frame width / height offered by the producer in the model
MaxDim == 2
\* number of frames the export engine stamps in the model
MaxSeq == 2
MaxStreams == 2
MaxSink == 2

(***************************************************************************)
(* Program constants.                                                      *)
(***************************************************************************)
\* DRM_FORMAT_MOD_INVALID (0x00ffffffffffffff) stands outside the layout tags
DRM_FORMAT_MOD_INVALID == -1
\* explicit layout tags the renderer may report; 0 (DRM_FORMAT_MOD_LINEAR) is
\* also the value of a zero-initialised modifier field
ModifierValues == {0, 1}
AnyModifier == ModifierValues \cup {DRM_FORMAT_MOD_INVALID}

\* struct format_data supported_formats[]
supported_formats ==
    << [spa_format |-> "BGRA", drm_format |-> "ARGB8888", gs_format |-> "GS_BGRA",
        video_format |-> "VIDEO_FORMAT_BGRA", swap_red_blue |-> FALSE, bpp |-> 4],
       [spa_format |-> "RGBA", drm_format |-> "ABGR8888", gs_format |-> "GS_RGBA",
        video_format |-> "VIDEO_FORMAT_RGBA", swap_red_blue |-> FALSE, bpp |-> 4],
       [spa_format |-> "BGRx", drm_format |-> "XRGB8888", gs_format |-> "GS_BGRX",
        video_format |-> "VIDEO_FORMAT_BGRX", swap_red_blue |-> FALSE, bpp |-> 4],
       [spa_format |-> "RGBx", drm_format |-> "XBGR8888", gs_format |-> "GS_BGRX",
        video_format |-> "VIDEO_FORMAT_NONE", swap_red_blue |-> TRUE, bpp |-> 4],
       [spa_format |-> "YUY2", drm_format |-> "YUYV", gs_format |-> "GS_UNKNOWN",
        video_format |-> "VIDEO_FORMAT_YUY2", swap_red_blue |-> FALSE, bpp |-> 2] >>

supported_formats_async == << "RGBA", "YUY2" >>
supported_formats_sync == << "BGRA", "RGBA", "BGRx", "RGBx" >>

\* the value of a zero-initialised pixel-format field (SPA_VIDEO_FORMAT_UNKNOWN)
SPA_VIDEO_FORMAT_UNKNOWN == "UNKNOWN"

\* lookup_format_info_from_spa_format: found flag and the catalog row
lookup_format_info_from_spa_format(spa_format) ==
    LET hits == {i \in 1..Len(supported_formats) :
                    supported_formats[i].spa_format = spa_format}
    IN  IF hits = {}
        THEN [found |-> FALSE, data |-> supported_formats[1]]
        ELSE [found |-> TRUE,
              data |-> supported_formats[CHOOSE i \in hits : \A j \in hits : i <= j]]

\* server versions around every version gate of the plugin (0.3.24, 0.3.33, 0.3.40)
Versions == { <<0, 0, 0>>, <<0, 3, 24>>, <<0, 3, 33>>, <<0, 3, 40>>, <<1, 0, 0>> }

\* check_pw_version_major_only: only the major numbers are compared
check_pw_version_major_only(pw_version, major, minor, micro) == pw_version[1] >= major

\* check_pw_version: the server version is at least major.minor.micro
check_pw_version(pw_version, major, minor, micro) ==
    IF pw_version[1] # major THEN pw_version[1] > major
    ELSE IF pw_version[2] # minor THEN pw_version[2] > minor
    ELSE pw_version[3] >= micro

(***************************************************************************)
(* darray helpers used on the modifier arrays.  An outcome is the array    *)
(* left behind, or a crash of the process.                                 *)
(***************************************************************************)
Survives(v) == [crashed |-> FALSE, v |-> v]
Crashes(v) == [crashed |-> TRUE, v |-> v]

\* da_find: 0-based index of the first occurrence, DARRAY_INVALID (-1) when absent
da_find(v, item) ==
    LET hits == {i \in 1..Len(v) : v[i] = item}
    IN  IF hits = {} THEN -1 ELSE (CHOOSE i \in hits : \A j \in hits : i <= j) - 1

\* da_erase: drops the element at the 0-based index idx
da_erase(v, idx) ==
    [i \in 1..(Len(v) - 1) |-> IF i <= idx THEN v[i] ELSE v[i + 1]]

\* da_erase_range erases the elements [start, end), end exclusive, with size_t
\* arithmetic (a negative number stands for its value modulo 2^64).  Its
\* assertions start <= num, end <= num, end > start abort a build that keeps
\* them; a build without them runs on: a count of 1 is da_erase, a count equal
\* to num empties the array, otherwise num - end elements are moved down and
\* num shrinks by the count; a move that leaves the allocation is a wild read.
da_erase_range(v, start, end) ==
    LET num == Len(v)
        asserts_ok == /\ 0 <= start /\ start <= num
                      /\ 0 <= end /\ end <= num
                      /\ end > start
        count == end - start
        left == num - count
        moved == IF count = 1 THEN {Survives(da_erase(v, start))}
                 ELSE IF count = num THEN {Survives(<< >>)}
                 ELSE IF 0 <= start /\ start <= end /\ end <= num
                      THEN {Survives([i \in 1..left |->
                                         IF i <= start THEN v[i] ELSE v[i + count]])}
                      ELSE {Crashes(v)} \cup
                           {Survives(g) : g \in [1..left -> AnyModifier]}
    IN  IF asserts_ok THEN moved ELSE {Crashes(v)} \cup moved


(***************************************************************************)
(* Format-parameter builder.                                               *)
(***************************************************************************)
\* build_format_last_preferred: the last modifier is the preferred value
build_format_last_preferred(format, modifiers, modifier_count) ==
    [spa_format |-> format,
     has_modifier |-> modifier_count > 0,
     modifier_choice |-> IF modifier_count > 0
                         THEN << modifiers[modifier_count] >>
                              \o SubSeq(modifiers, 1, modifier_count)
                         ELSE << >>,
     size |-> [def |-> << 320, 240 >>, min |-> << 1, 1 >>, max |-> << 8192, 4320 >>]]

\* build_format: one EnumFormat proposal; with modifiers the choice lists the
\* first modifier as preferred value and then every modifier of the array
build_format(format, modifiers, modifier_count) ==
    [spa_format |-> format,
     has_modifier |-> modifier_count > 0,
     modifier_choice |-> IF modifier_count > 0
                         THEN << modifiers[1] >> \o SubSeq(modifiers, 1, modifier_count)
                         ELSE << >>,
     size |-> [def |-> << 320, 240 >>, min |-> << 1, 1 >>, max |-> << 8192, 4320 >>]]

\* the modifier-qualified proposals of entries from..Len(f_info), in list order
RECURSIVE build_dmabuf(_, _)
build_dmabuf(f_info, from) ==
    IF from > Len(f_info) THEN << >>
    ELSE IF Len(f_info[from].modifiers) = 0 THEN build_dmabuf(f_info, from + 1)
    ELSE << build_format(f_info[from].spa_format, f_info[from].modifiers,
                         Len(f_info[from].modifiers)) >>
         \o build_dmabuf(f_info, from + 1)

\* the plain proposals, one per entry, in list order (label build_shm)
build_shm(f_info) ==
    [i \in 1..Len(f_info) |-> build_format(f_info[i].spa_format, << >>, 0)]

\* build_format_params_swapped: the plain proposals are emitted first
build_format_params_swapped(f_info, server_version, alloc_ok) ==
    IF ~alloc_ok THEN [ok |-> FALSE, params |-> << >>]
    ELSE [ok |-> TRUE,
          params |-> build_shm(f_info) \o
                     (IF check_pw_version(server_version, 0, 3, 33)
                      THEN build_dmabuf(f_info, 1) ELSE << >>)]

\* build_format_params: false when the pointer array cannot be allocated, else
\* the modifier-qualified proposals (server >= 0.3.33) followed by the plain ones
build_format_params(f_info, server_version, alloc_ok) ==
    IF ~alloc_ok THEN [ok |-> FALSE, params |-> << >>]
    ELSE [ok |-> TRUE,
          params |-> (IF check_pw_version(server_version, 0, 3, 33)
                      THEN build_dmabuf(f_info, 1) ELSE << >>)
                     \o build_shm(f_info)]

(***************************************************************************)
(* Modifier removal.                                                       *)
(***************************************************************************)
\* erase_modifier_once: only the first occurrence is dropped
erase_modifier_once(v, modifier) ==
    LET idx == da_find(v, modifier)
    IN  IF idx = -1 THEN v ELSE da_erase(v, idx)

\* erase_modifier_clear: the whole array is dropped
erase_modifier_clear(v, modifier) == << >>

\* the da_find / da_erase loop: every occurrence of the modifier is dropped
RECURSIVE erase_modifier(_, _)
erase_modifier(v, modifier) ==
    LET idx == da_find(v, modifier)
    IN  IF idx = -1 THEN v ELSE erase_modifier(da_erase(v, idx), modifier)

\* the loop of remove_modifier_from_format from entry i on; the outcomes are
\* the lists the call can leave behind, or a crash inside da_erase_range
RECURSIVE remove_from(_, _, _, _, _)
remove_from(i, f_info, server_version, spa_format, modifier) ==
    IF i > Len(f_info) THEN {[crashed |-> FALSE, f_info |-> f_info]}
    ELSE IF f_info[i].spa_format # spa_format
    THEN remove_from(i + 1, f_info, server_version, spa_format, modifier)
    ELSE IF ~check_pw_version(server_version, 0, 3, 40)
    THEN UNION { IF o.crashed
                 THEN {[crashed |-> TRUE, f_info |-> f_info]}
                 ELSE remove_from(i + 1, [f_info EXCEPT ![i].modifiers = o.v],
                                  server_version, spa_format, modifier)
                 : o \in da_erase_range(f_info[i].modifiers, 0,
                                        Len(f_info[i].modifiers) - 1) }
    ELSE remove_from(i + 1,
                     [f_info EXCEPT ![i].modifiers =
                                        erase_modifier(f_info[i].modifiers, modifier)],
                     server_version, spa_format, modifier)

\* remove_modifier_from_format
remove_modifier_from_format(f_info, server_version, spa_format, modifier) ==
    remove_from(1, f_info, server_version, spa_format, modifier)


(***************************************************************************)
(* State.                                                                  *)
(***************************************************************************)
VARIABLES
    server_version,   \* obs_pw->server_version, <<major, minor, micro>>
    stream,           \* the fields of struct _obs_pipewire_stream (and of the adapters)
    pw,               \* the native pw_stream: queued buffers, parameters sent, loop events
    crashed,          \* the process died (failed assertion, wild or null access)
    last,             \* record of the most recent call and of what it did
    session           \* struct _obs_pipewire, its engines, and the two threads

vars == << server_version, stream, pw, crashed, last, session >>

\* the modifier arrays gs_query_dmabuf_modifiers_for_format can hand back
ModifierArrays == UNION {[1..n -> ModifierValues] : n \in 0..MaxMods}

format_info_entry(spa_format, modifiers) ==
    [spa_format |-> spa_format,
     drm_format |-> lookup_format_info_from_spa_format(spa_format).data.drm_format,
     modifiers |-> modifiers]

\* create_format_info_sync: the sync formats whose DRM format the renderer
\* offers (catalog positions idx, ascending); an entry whose modifier query
\* succeeds (queried[i]) gets the modifiers the renderer reports, and, when
\* implicit modifiers are supported, DRM_FORMAT_MOD_INVALID is pushed after them
create_format_info_sync(idx, queried, modifiers, implicit) ==
    [i \in 1..Len(idx) |->
        format_info_entry(supported_formats_sync[idx[i]],
                          (IF queried[i] THEN modifiers ELSE << >>)
                          \o (IF implicit THEN << DRM_FORMAT_MOD_INVALID >> ELSE << >>))]

\* create_format_info_async: both async formats, no modifiers
create_format_info_async ==
    [i \in 1..Len(supported_formats_async) |->
        format_info_entry(supported_formats_async[i], << >>)]

Ascending(idx) == \A i \in 1..(Len(idx) - 1) : idx[i] < idx[i + 1]

\* the lists create_format_info_sync builds with at most MaxFormats entries
FormatLists ==
    UNION { { create_format_info_sync(idx, queried, mods, implicit) :
                idx \in {x \in [1..n -> 1..Len(supported_formats_sync)] : Ascending(x)},
                queried \in [1..n -> BOOLEAN],
                mods \in ModifierArrays,
                implicit \in BOOLEAN }
            : n \in 0..MaxFormats }

ZeroFormat ==
    [media_type |-> "unknown", media_subtype |-> "unknown",
     format |-> SPA_VIDEO_FORMAT_UNKNOWN, modifier |-> 0,
     width |-> 0, height |-> 0,
     color_matrix |-> "UNKNOWN", color_range |-> "UNKNOWN"]

ZeroDecoder == [context |-> FALSE, packet |-> FALSE, frame |-> FALSE, opened |-> FALSE]

\* the engines that upload textures: the one of pipewire.c and the display
\* adapter
Display(impl) == impl \in {"sync", "video_sync"}

\* the engine after bzalloc and init_format_info; obs_pipewire_connect_stream
\* registers the renegotiation event with the session as its data pointer.
\* The display adapter signals through obs_pipewire_stream_signal_reneg, whose
\* body is not part of the sources: its event is taken to be registered with
\* the engine
NewStream(impl, f_info) ==
    [impl |-> impl,
     negotiated |-> FALSE,
     format |-> ZeroFormat,
     crop |-> [valid |-> FALSE, x |-> 0, y |-> 0, width |-> 0, height |-> 0],
     texture |-> "null",
     cursor |-> [visible |-> FALSE, valid |-> FALSE, x |-> 0, y |-> 0,
                 hotspot_x |-> 0, hotspot_y |-> 0, width |-> 0, height |-> 0,
                 texture |-> "null"],
     decoder |-> ZeroDecoder,
     seq |-> 0,
     format_info |-> f_info,
     reneg |-> [data |-> IF impl = "video_sync" THEN "obs_pw_stream" ELSE "obs_pw"]]

\* the native stream before pw_stream_connect
NewPw ==
    [queue |-> << >>, enum_params |-> << >>, sent_by |-> "none",
     reply |-> [sent |-> FALSE], reneg_signalled |-> FALSE, state |-> "unconnected"]

NoCall == [op |-> "none"]

\* no session is looked at: the engine is taken on its own
NoSession == [created |-> FALSE]

(***************************************************************************)
(* The format operations applied to every list and version: SpecFormats.   *)
(***************************************************************************)
FormatsInit ==
    /\ server_version \in Versions
    /\ \E f_info \in FormatLists : stream = NewStream("sync", f_info)
    /\ pw = NewPw
    /\ crashed = FALSE
    /\ last = NoCall
    /\ session = NoSession

\* Each behaviour of SpecFormats applies one operation to the inputs drawn by
\* FormatsInit, and may repeat it with the same arguments.

\* a call of build_format_params on the engine's list
BuildFormatParams(alloc_ok) ==
    /\ ~crashed
    /\ last.op # "remove"
    /\ last' = [op |-> "build", f_info |-> stream.format_info,
                result |-> build_format_params(stream.format_info, server_version,
                                               alloc_ok)]
    /\ UNCHANGED << server_version, stream, pw, crashed, session >>

\* a call of remove_modifier_from_format on the engine's list; last counts the
\* consecutive calls with the same arguments and keeps the list after the first
\* of them and the modifier arrays the entries of that format held before it
RemoveModifier(spa_format, modifier) ==
    /\ ~crashed
    /\ last.op = "remove" => (last.spa_format = spa_format /\ last.modifier = modifier)
    /\ last.op # "build"
    /\ \E o \in remove_modifier_from_format(stream.format_info, server_version,
                                            spa_format, modifier) :
          LET again == /\ last.op = "remove"
                       /\ last.spa_format = spa_format
                       /\ last.modifier = modifier
          IN  /\ stream' = [stream EXCEPT !.format_info = o.f_info]
              /\ crashed' = o.crashed
              /\ last' = [op |-> "remove", spa_format |-> spa_format,
                          modifier |-> modifier,
                          held |-> IF again THEN last.held
                                   ELSE {stream.format_info[i].modifiers :
                                           i \in {j \in 1..Len(stream.format_info) :
                                                stream.format_info[j].spa_format
                                                    = spa_format}},
                          count |-> IF again THEN 2 ELSE 1,
                          after_first |-> IF again THEN last.after_first ELSE o.f_info]
    /\ UNCHANGED << server_version, pw, session >>

FormatsNext ==
    \/ \E alloc_ok \in BOOLEAN : BuildFormatParams(alloc_ok)
    \/ \E f \in {stream.format_info[i].spa_format : i \in 1..Len(stream.format_info)}
                 \cup {"YUY2"},
          m \in AnyModifier :
          RemoveModifier(f, m)

SpecFormats == FormatsInit /\ [][FormatsNext]_vars


(***************************************************************************)
(* param_changed: the three handlers.  A param is the Format pod the        *)
(* producer sends (null for a NULL pointer); a handler yields the engine it *)
(* leaves and the parameter set it sends with pw_stream_update_params, if   *)
(* it sends one.                                                            *)
(***************************************************************************)
\* spa_format_parse and the subtype parsers, as far as the handlers use them
spa_format_parse_ok(param) == param.parse_ok
raw_fields(format, param) ==
    [format EXCEPT !.format = param.format,
                   !.modifier = IF param.has_modifier THEN param.modifier ELSE @,
                   !.width = param.width, !.height = param.height,
                   !.color_matrix = param.color_matrix,
                   !.color_range = param.color_range]
size_fields(format, param) ==
    [format EXCEPT !.width = param.width, !.height = param.height]

\* Unanswered_reset: a handler that gives up marks the engine not negotiated
Unanswered_reset(s) ==
    [stream |-> [s EXCEPT !.negotiated = FALSE], reply |-> [sent |-> FALSE]]

\* a return of param_changed ahead of pw_stream_update_params
Unanswered(s) == [stream |-> s, reply |-> [sent |-> FALSE]]

\* SPA_ROUND_UP_N; the proposals cap a frame at 8192 x 4320, so no product of
\* width, height and bytes per pixel leaves the range of uint32_t
\* no_round_up: the row length is taken as it is
no_round_up(num, align) == num

SPA_ROUND_UP_N(num, align) == (num + (align - 1)) - ((num + (align - 1)) % align)

\* on_param_changed_cb of pipewire.c (sync and async sources)
on_param_changed_cb(s, version, id, param) ==
    IF param.null \/ id # "Format" THEN Unanswered(s)
    ELSE IF ~spa_format_parse_ok(param) THEN Unanswered(s)
    ELSE
    LET typed == [s EXCEPT !.format.media_type = param.media_type,
                           !.format.media_subtype = param.media_subtype]
    IN  IF param.media_type # "video" \/ param.media_subtype # "raw"
        THEN Unanswered(typed)
        ELSE
        LET parsed == IF param.subtype_ok
                      THEN [typed EXCEPT !.format = raw_fields(@, param)]
                      ELSE typed
            has_modifier == param.has_modifier
            buffer_types ==
                {"MemPtr"} \cup
                (IF (has_modifier \/ check_pw_version(version, 0, 3, 24))
                    /\ s.impl # "async"
                 THEN {"DmaBuf"} ELSE {})
        IN  [stream |-> [parsed EXCEPT !.negotiated = TRUE],
             reply |-> [sent |-> TRUE, n_params |-> 3, metas |-> {"VideoCrop", "Cursor"},
                        buffer_types |-> buffer_types]]

\* pipewire_init_decoder: the step that fails (or "none"); a pointer assigned
\* before the failing step is set, the failing allocation leaves NULL
pipewire_init_decoder(decoder, subtype, fail_at) ==
    IF subtype \notin {"mjpg", "h264"} THEN [ret |-> -1, decoder |-> decoder]
    ELSE IF fail_at = "codec" THEN [ret |-> -1, decoder |-> decoder]
    ELSE IF fail_at = "context"
    THEN [ret |-> -1, decoder |-> [decoder EXCEPT !.context = FALSE, !.opened = FALSE]]
    ELSE IF fail_at = "packet"
    THEN [ret |-> -1, decoder |-> [decoder EXCEPT !.context = TRUE, !.packet = FALSE,
                                                   !.opened = FALSE]]
    ELSE IF fail_at = "frame"
    THEN [ret |-> -1, decoder |-> [context |-> TRUE, packet |-> TRUE, frame |-> FALSE,
                                   opened |-> FALSE]]
    ELSE IF fail_at = "open"
    THEN [ret |-> -1, decoder |-> [context |-> TRUE, packet |-> TRUE, frame |-> TRUE,
                                   opened |-> FALSE]]
    ELSE [ret |-> 0, decoder |-> [context |-> TRUE, packet |-> TRUE, frame |-> TRUE,
                                  opened |-> TRUE]]

\* video_stream_param_changed of the async adapter; buffer_types is assigned
\* in the raw case only, so the mask sent for mjpg and h264 is whatever the
\* uninitialised variable holds (stack_types)
video_async_param_changed(s, id, param, fail_at, stack_types) ==
    IF param.null \/ id # "Format" THEN Unanswered(s)
    ELSE
    LET zeroed == [s EXCEPT !.format = ZeroFormat]
    IN  IF ~spa_format_parse_ok(param) THEN Unanswered(zeroed)
        ELSE
        LET typed == [zeroed EXCEPT !.format.media_type = param.media_type,
                                    !.format.media_subtype = param.media_subtype]
        IN  IF param.media_type # "video" THEN Unanswered(typed)
            ELSE IF param.media_subtype \notin {"raw", "mjpg", "h264"}
            THEN Unanswered(typed)
            ELSE IF ~param.subtype_ok THEN Unanswered(typed)
            ELSE
            LET parsed == IF param.media_subtype = "raw"
                          THEN [typed EXCEPT !.format = raw_fields(@, param)]
                          ELSE [typed EXCEPT !.format = size_fields(@, param)]
                buffer_types == IF param.media_subtype = "raw"
                                THEN {"MemPtr"} ELSE stack_types
                init == pipewire_init_decoder(s.decoder, param.media_subtype, fail_at)
                ready == IF param.media_subtype = "raw" THEN parsed
                         ELSE [parsed EXCEPT !.decoder = init.decoder]
            IN  IF param.media_subtype # "raw" /\ init.ret < 0
                THEN Unanswered(ready)
                ELSE [stream |-> [ready EXCEPT !.negotiated = TRUE],
                      reply |-> [sent |-> TRUE, n_params |-> 2, metas |-> {"VideoCrop"},
                                 buffer_types |-> buffer_types]]

\* video_stream_param_changed of the export adapter
video_output_param_changed(s, id, param) ==
    IF param.null \/ id # "Format" THEN Unanswered(s)
    ELSE IF ~spa_format_parse_ok(param) THEN Unanswered(s)
    ELSE
    LET typed == [s EXCEPT !.format.media_type = param.media_type,
                           !.format.media_subtype = param.media_subtype]
    IN  IF param.media_type # "video" \/ param.media_subtype # "raw"
        THEN Unanswered(typed)
        ELSE
        LET parsed == IF param.subtype_ok
                      THEN [typed EXCEPT !.format = raw_fields(@, param)]
                      ELSE typed
            found == lookup_format_info_from_spa_format(parsed.format.format)
            stride == SPA_ROUND_UP_N(found.data.bpp * parsed.format.width, 4)
            size == SPA_ROUND_UP_N(stride * parsed.format.width, 4)
        IN  IF ~found.found THEN Unanswered(parsed)
            ELSE [stream |-> [parsed EXCEPT !.negotiated = TRUE],
                  reply |-> [sent |-> TRUE, n_params |-> 2, metas |-> {"VideoCrop"},
                             buffers |-> [def |-> 4, min |-> 1, max |-> 32],
                             blocks |-> 1, size |-> size, stride |-> stride,
                             align |-> 16, buffer_types |-> {"MemPtr"}]]

(***************************************************************************)
(* process: buffers, frames, and the conversion paths.                      *)
(***************************************************************************)
\* the transport's buffer pool; a queue is a sequence of distinct buffers
Buffers == 1..MaxQueue

\* video_colorspace_from_spa_color_matrix
video_colorspace_from_spa_color_matrix(matrix) ==
    CASE matrix = "RGB" -> "VIDEO_CS_DEFAULT"
      [] matrix = "BT601" -> "VIDEO_CS_601"
      [] matrix = "BT709" -> "VIDEO_CS_709"
      [] OTHER -> "VIDEO_CS_DEFAULT"

\* video_color_range_swapped: the two recognised ranges exchanged
video_color_range_swapped(colorrange) ==
    CASE colorrange = "0_255" -> "VIDEO_RANGE_PARTIAL"
      [] colorrange = "16_235" -> "VIDEO_RANGE_FULL"
      [] OTHER -> "VIDEO_RANGE_DEFAULT"

\* video_color_range_from_spa_color_range
video_color_range_from_spa_color_range(colorrange) ==
    CASE colorrange = "0_255" -> "VIDEO_RANGE_FULL"
      [] colorrange = "16_235" -> "VIDEO_RANGE_PARTIAL"
      [] OTHER -> "VIDEO_RANGE_DEFAULT"

\* struct obs_source_frame out = {0}; data is the buffer the planes point into
ZeroFrame ==
    [width |-> 0, height |-> 0, colorspace |-> "unset", range |-> "unset",
     format |-> "VIDEO_FORMAT_NONE", linesize |-> 0, data |-> 0]

\* find_latest_buffer: every queued buffer is dequeued; each one but the last
\* is queued back as soon as its successor is dequeued
find_latest_buffer_oldest(queue) ==
    [dequeued |-> queue,
     b |-> IF queue = << >> THEN 0 ELSE queue[1],
     requeued |-> IF queue = << >> THEN << >> ELSE SubSeq(queue, 2, Len(queue))]

find_latest_buffer(queue) ==
    [dequeued |-> queue,
     b |-> IF queue = << >> THEN 0 ELSE queue[Len(queue)],
     requeued |-> IF queue = << >> THEN << >> ELSE SubSeq(queue, 1, Len(queue) - 1)]

\* prepare_obs_frame of pipewire.c
prepare_obs_frame(s) ==
    LET found == lookup_format_info_from_spa_format(s.format.format)
        sized == [ZeroFrame EXCEPT
                    !.width = s.format.width, !.height = s.format.height,
                    !.colorspace =
                        video_colorspace_from_spa_color_matrix(s.format.color_matrix),
                    !.range =
                        video_color_range_from_spa_color_range(s.format.color_range)]
    IN  IF ~found.found \/ found.data.video_format = "VIDEO_FORMAT_NONE"
        THEN [ok |-> FALSE, frame |-> sized]
        ELSE [ok |-> TRUE,
              frame |-> [sized EXCEPT
                           !.format = found.data.video_format,
                           !.linesize = SPA_ROUND_UP_N(
                               sized.width * found.data.bpp, 4)]]

\* what a tick did: the buffers taken from and given back to the transport,
\* the buffer whose payload was looked at, the frames handed to the host
Tick(s, found, returned, converted, frames, path) ==
    [stream |-> s, crashed |-> FALSE, signalled |-> FALSE,
     dequeued |-> found.dequeued, returned |-> returned, latest |-> found.b,
     converted |-> converted, frames |-> frames, path |-> path]

\* process_video_async_leaky: a frame that cannot be prepared ends the tick at once
process_video_async_leaky(s, queue, buf) ==
    LET found == find_latest_buffer(queue)
        b == found.b
        prepared == prepare_obs_frame(s)
        done == found.requeued \o << b >>
    IN  IF b = 0 THEN Tick(s, found, found.requeued, {}, << >>, "out of buffers")
        ELSE IF buf.size = 0 THEN Tick(s, found, done, {}, << >>, "zero size")
        ELSE IF ~prepared.ok
        THEN Tick(s, found, found.requeued, {b}, << >>, "prepare failed")
        ELSE IF ~buf.mapped THEN Tick(s, found, done, {b}, << >>, "unmapped plane")
        ELSE Tick(s, found, done, {b},
                  << [prepared.frame EXCEPT !.data = b] >>, "frame")

\* process_video_async
process_video_async(s, queue, buf) ==
    LET found == find_latest_buffer(queue)
        b == found.b
        prepared == prepare_obs_frame(s)
        done == found.requeued \o << b >>
    IN  IF b = 0 THEN Tick(s, found, found.requeued, {}, << >>, "out of buffers")
        ELSE IF buf.size = 0 THEN Tick(s, found, done, {}, << >>, "zero size")
        ELSE IF ~prepared.ok THEN Tick(s, found, done, {b}, << >>, "prepare failed")
        ELSE IF ~buf.mapped THEN Tick(s, found, done, {b}, << >>, "unmapped plane")
        ELSE Tick(s, found, done, {b},
                  << [prepared.frame EXCEPT !.data = b] >>, "frame")

\* read_metadata_any_bitmap: the cursor texture is rebuilt for every valid
\* cursor record, whatever its bitmap
read_metadata_any_bitmap(s, buf) ==
    LET cursor == buf.cursor
        valid == cursor.present /\ cursor.id # 0
    IN  IF s.cursor.visible /\ valid
        THEN [s EXCEPT !.cursor.valid = valid,
                       !.cursor.hotspot_x = cursor.hotspot_x,
                       !.cursor.hotspot_y = cursor.hotspot_y,
                       !.cursor.width = cursor.bitmap.width,
                       !.cursor.height = cursor.bitmap.height,
                       !.cursor.texture = "memptr",
                       !.cursor.x = cursor.x, !.cursor.y = cursor.y]
        ELSE [s EXCEPT !.cursor.valid = valid]

\* the cursor part of a tick (label read_metadata)
read_metadata(s, buf) ==
    LET cursor == buf.cursor
        valid == cursor.present /\ cursor.id # 0
        marked == [s EXCEPT !.cursor.valid = valid]
        bitmap == cursor.bitmap
        found == lookup_format_info_from_spa_format(bitmap.format)
        drawn == IF bitmap.present /\ bitmap.width > 0 /\ bitmap.height > 0
                    /\ found.found /\ found.data.gs_format # "GS_UNKNOWN"
                 THEN [marked EXCEPT !.cursor.hotspot_x = cursor.hotspot_x,
                                     !.cursor.hotspot_y = cursor.hotspot_y,
                                     !.cursor.width = bitmap.width,
                                     !.cursor.height = bitmap.height,
                                     !.cursor.texture = "memptr"]
                 ELSE marked
    IN  IF s.cursor.visible /\ valid
        THEN [drawn EXCEPT !.cursor.x = cursor.x, !.cursor.y = cursor.y]
        ELSE marked

\* video_crop_unchecked: the crop meta is taken without spa_meta_region_is_valid
video_crop_unchecked(s, buf) ==
    IF buf.crop.present
    THEN [s EXCEPT !.crop = [valid |-> TRUE, x |-> buf.crop.x, y |-> buf.crop.y,
                             width |-> buf.crop.width, height |-> buf.crop.height]]
    ELSE [s EXCEPT !.crop.valid = FALSE]

\* the crop part of a tick; spa_meta_region_is_valid wants a non-empty size
video_crop(s, buf) ==
    IF buf.crop.present /\ buf.crop.width # 0 /\ buf.crop.height # 0
    THEN [s EXCEPT !.crop = [valid |-> TRUE, x |-> buf.crop.x, y |-> buf.crop.y,
                             width |-> buf.crop.width, height |-> buf.crop.height]]
    ELSE [s EXCEPT !.crop.valid = FALSE]

Handled(s, signalled, converted, path) ==
    [stream |-> s, crashed |-> FALSE, signalled |-> signalled,
     converted |-> converted, path |-> path]

\* video_stream_process_buffer of the sync adapter, for one buffer; the
\* outcomes differ where remove_modifier_from_format has several
video_sync_process_buffer(s, version, buf, import_ok) ==
    LET found == lookup_format_info_from_spa_format(s.format.format)
        unsupported == ~found.found \/ found.data.gs_format = "GS_UNKNOWN"
        removed == remove_modifier_from_format(s.format_info, version,
                                               s.format.format, s.format.modifier)
    IN  IF buf.size = 0
        THEN {Handled(read_metadata(s, buf), FALSE, FALSE, "zero size")}
        ELSE IF unsupported
        THEN {Handled(read_metadata(s, buf), FALSE, TRUE, "unsupported format")}
        ELSE IF buf.type = "DmaBuf"
        THEN IF import_ok
             THEN {Handled(read_metadata(video_crop([s EXCEPT !.texture = "dmabuf"], buf),
                                         buf),
                           FALSE, TRUE, "imported")}
             ELSE { IF o.crashed
                    THEN [stream |-> [s EXCEPT !.texture = "null"], crashed |-> TRUE,
                          signalled |-> FALSE, converted |-> TRUE,
                          path |-> "import failed"]
                    ELSE Handled(read_metadata(
                                     video_crop([s EXCEPT !.texture = "null",
                                                          !.format_info = o.f_info],
                                                buf),
                                     buf),
                                 TRUE, TRUE, "import failed")
                    : o \in removed }
        ELSE {Handled(read_metadata(video_crop([s EXCEPT !.texture = "memptr"], buf), buf),
                      FALSE, TRUE, "uploaded")}

\* process_video_sync_keep_buffer: a buffer whose import failed is kept until
\* the renegotiation has run
process_video_sync_keep_buffer(s, version, queue, buf, import_ok) ==
    LET found == find_latest_buffer(queue)
        b == found.b
    IN  IF b = 0 THEN {Tick(s, found, found.requeued, {}, << >>, "out of buffers")}
        ELSE { [stream |-> h.stream, crashed |-> h.crashed, signalled |-> h.signalled,
                dequeued |-> found.dequeued,
                returned |-> IF h.crashed \/ h.signalled THEN found.requeued
                             ELSE found.requeued \o << b >>,
                latest |-> b,
                converted |-> IF h.converted THEN {b} ELSE {},
                frames |-> << >>, path |-> h.path]
               : h \in video_sync_process_buffer(s, version, buf, import_ok) }

\* process_video_sync of pipewire.c: find_latest_buffer, then the same steps
\* as video_stream_process_buffer of the sync adapter, then the buffer is
\* queued back
process_video_sync(s, version, queue, buf, import_ok) ==
    LET found == find_latest_buffer(queue)
        b == found.b
    IN  IF b = 0 THEN {Tick(s, found, found.requeued, {}, << >>, "out of buffers")}
        ELSE { [stream |-> h.stream, crashed |-> h.crashed, signalled |-> h.signalled,
                dequeued |-> found.dequeued,
                returned |-> IF h.crashed THEN found.requeued
                             ELSE found.requeued \o << b >>,
                latest |-> b,
                converted |-> IF h.converted THEN {b} ELSE {},
                frames |-> << >>, path |-> h.path]
               : h \in video_sync_process_buffer(s, version, buf, import_ok) }

\* pipewire_decode_frame: -1 when the codec rejects the packet or has no
\* picture; the packet and the context are dereferenced unchecked
pipewire_decode_frame(out, decoder, picture) ==
    IF ~decoder.packet \/ ~decoder.context
    THEN [crashed |-> TRUE, ret |-> -1, frame |-> out]
    ELSE IF ~decoder.opened \/ ~picture.present
    THEN [crashed |-> FALSE, ret |-> -1, frame |-> out]
    ELSE [crashed |-> FALSE, ret |-> 0,
          frame |-> [out EXCEPT !.width = picture.width, !.height = picture.height,
                                !.colorspace = "VIDEO_CS_DEFAULT",
                                !.range = "VIDEO_RANGE_FULL",
                                !.format = "VIDEO_FORMAT_I420",
                                !.linesize = picture.width]]

\* prepare_obs_frame of the async adapter for buffer b: a raw frame is
\* described from the negotiated format; any other subtype goes through the
\* decoder, and a decoder failure is logged and still reports the frame ready
video_async_prepare_obs_frame(s, b, buf, picture) ==
    LET prepared == prepare_obs_frame(s)
        decoded == pipewire_decode_frame(ZeroFrame, s.decoder, picture)
    IN  IF s.format.media_subtype = "raw"
        THEN IF ~prepared.ok \/ ~buf.mapped
             THEN [crashed |-> FALSE, ok |-> FALSE, frame |-> prepared.frame]
             ELSE [crashed |-> FALSE, ok |-> TRUE,
                   frame |-> [prepared.frame EXCEPT !.data = b]]
        ELSE IF decoded.crashed
        THEN [crashed |-> TRUE, ok |-> FALSE, frame |-> ZeroFrame]
        ELSE [crashed |-> FALSE, ok |-> TRUE, frame |-> decoded.frame]

\* video_stream_process_buffer of the async adapter
video_async_process_buffer(s, b, buf, picture) ==
    LET prepared == video_async_prepare_obs_frame(s, b, buf, picture)
    IN  IF buf.size = 0
        THEN [crashed |-> FALSE, converted |-> FALSE, frames |-> << >>,
              path |-> "zero size"]
        ELSE IF prepared.crashed
        THEN [crashed |-> TRUE, converted |-> TRUE, frames |-> << >>,
              path |-> "decoder crash"]
        ELSE IF ~prepared.ok
        THEN [crashed |-> FALSE, converted |-> TRUE, frames |-> << >>,
              path |-> "prepare failed"]
        ELSE [crashed |-> FALSE, converted |-> TRUE, frames |-> << prepared.frame >>,
              path |-> "frame"]

\* the engine's process callback in front of an adapter: the latest buffer is
\* found, handed to the adapter's process_buffer and queued back
process_video_adapter(s, queue, buf, picture) ==
    LET found == find_latest_buffer(queue)
        b == found.b
        h == video_async_process_buffer(s, b, buf, picture)
    IN  IF b = 0 THEN Tick(s, found, found.requeued, {}, << >>, "out of buffers")
        ELSE [stream |-> s, crashed |-> h.crashed, signalled |-> FALSE,
              dequeued |-> found.dequeued,
              returned |-> IF h.crashed THEN found.requeued
                           ELSE found.requeued \o << b >>,
              latest |-> b,
              converted |-> IF h.converted THEN {b} ELSE {},
              frames |-> h.frames, path |-> h.path]

\* the cursor block rebuilds the cursor texture
CursorRebuilt(s, buf) ==
    LET found == lookup_format_info_from_spa_format(buf.cursor.bitmap.format)
    IN  /\ s.cursor.visible
        /\ buf.cursor.present /\ buf.cursor.id # 0
        /\ buf.cursor.bitmap.present
        /\ buf.cursor.bitmap.width > 0 /\ buf.cursor.bitmap.height > 0
        /\ found.found /\ found.data.gs_format # "GS_UNKNOWN"

\* the calls into the graphics subsystem the cursor block makes
cursor_graphics_calls(s, buf) ==
    IF CursorRebuilt(s, buf)
    THEN << "gs_texture_destroy(cursor.texture)", "gs_texture_create(cursor.texture)" >>
    ELSE << >>

\* process_graphics_calls_early_return: a buffer without payload ends the
\* call where it stands
process_graphics_calls_early_return(s, queue, buf) ==
    IF ~Display(s.impl) \/ find_latest_buffer(queue).b = 0 THEN << >>
    ELSE IF buf.size = 0 THEN << "obs_enter_graphics" >>
    ELSE << "obs_enter_graphics", "obs_leave_graphics" >>

\* the calls into the graphics subsystem one process call of a display
\* engine makes, in the order of process_video_sync and of the display
\* adapter's video_stream_process_buffer; the other engines make none
process_graphics_calls(s, queue, buf) ==
    LET found == lookup_format_info_from_spa_format(s.format.format)
        unsupported == ~found.found \/ found.data.gs_format = "GS_UNKNOWN"
        texture == IF buf.size = 0 \/ unsupported THEN << >>
                   ELSE IF buf.type = "DmaBuf"
                   THEN << "gs_texture_destroy(texture)",
                           "gs_texture_create_from_dmabuf(texture)" >>
                   ELSE << "gs_texture_destroy(texture)", "gs_texture_create(texture)" >>
    IN  IF ~Display(s.impl) \/ find_latest_buffer(queue).b = 0 THEN << >>
        ELSE << "obs_enter_graphics" >> \o texture \o cursor_graphics_calls(s, buf)
             \o << "obs_leave_graphics" >>

\* on_process_cb: what one process callback does, by kind of engine
on_process_cb(s, version, queue, buf, import_ok, picture) ==
    IF s.impl = "async" THEN {process_video_async(s, queue, buf)}
    ELSE IF Display(s.impl) THEN process_video_sync(s, version, queue, buf, import_ok)
    ELSE {process_video_adapter(s, queue, buf, picture)}

\* obs_pipewire_stream_get_width / _get_height and the async adapter's
\* video_stream_get_width / _get_height
obs_pipewire_stream_get_width(s) ==
    IF ~s.negotiated THEN 0
    ELSE IF s.impl = "video_async"
    THEN IF s.format.media_subtype \in {"raw", "mjpg", "h264"} THEN s.format.width ELSE 0
    ELSE IF s.crop.valid THEN s.crop.width
    ELSE s.format.width

obs_pipewire_stream_get_height(s) ==
    IF ~s.negotiated THEN 0
    ELSE IF s.impl = "video_async"
    THEN IF s.format.media_subtype \in {"raw", "mjpg", "h264"} THEN s.format.height ELSE 0
    ELSE IF s.crop.valid THEN s.crop.height
    ELSE s.format.height

\* has_effective_crop_inclusive: a crop as large as the frame counts as a crop
has_effective_crop_inclusive(crop, format) ==
    crop.valid /\ (crop.x # 0 \/ crop.y # 0 \/ crop.width <= format.width
                   \/ crop.height <= format.height)

\* has_effective_crop
has_effective_crop(crop, format) ==
    crop.valid /\ (crop.x # 0 \/ crop.y # 0 \/ crop.width < format.width
                   \/ crop.height < format.height)

GsCall(call, x, y, width, height) ==
    [call |-> call, x |-> x, y |-> y, width |-> width, height |-> height]

\* the cursor part of a render: the sprite is drawn at the position less the
\* hotspot, between gs_matrix_push and gs_matrix_pop
draw_cursor(s) ==
    << GsCall("gs_matrix_push", 0, 0, 0, 0),
       GsCall("gs_matrix_translate3f", s.cursor.x - s.cursor.hotspot_x,
              s.cursor.y - s.cursor.hotspot_y, 0, 0),
       GsCall("gs_draw_sprite", 0, 0, s.cursor.width, s.cursor.height),
       GsCall("gs_matrix_pop", 0, 0, 0, 0) >>

\* obs_pipewire_stream_video_render_cursor_always: the cursor is drawn with
\* every frame
obs_pipewire_stream_video_render_cursor_always(s) ==
    IF s.texture = "null" THEN << >>
    ELSE << IF has_effective_crop(s.crop, s.format)
            THEN GsCall("gs_draw_sprite_subregion", s.crop.x, s.crop.y,
                        s.crop.width, s.crop.height)
            ELSE GsCall("gs_draw_sprite", 0, 0, 0, 0) >>
         \o draw_cursor(s)

\* obs_pipewire_stream_video_render: the graphics calls it issues
obs_pipewire_stream_video_render(s) ==
    IF s.texture = "null" THEN << >>
    ELSE << IF has_effective_crop(s.crop, s.format)
            THEN GsCall("gs_draw_sprite_subregion", s.crop.x, s.crop.y,
                        s.crop.width, s.crop.height)
            ELSE GsCall("gs_draw_sprite", 0, 0, 0, 0) >>
         \o (IF s.cursor.visible /\ s.cursor.valid /\ s.cursor.texture # "null"
             THEN draw_cursor(s)
             ELSE << >>)

\* obs_pipewire_stream_set_cursor_visible
obs_pipewire_stream_set_cursor_visible(s, cursor_visible) ==
    [s EXCEPT !.cursor.visible = cursor_visible]

\* video_stream_export_frame_count_all: the sequence number advances with
\* every exported frame, stamped or not
video_stream_export_frame_count_all(s, state, blocks, header) ==
    LET found == lookup_format_info_from_spa_format(s.format.format)
    IN  IF state # "streaming" \/ ~found.found
        THEN [exported |-> FALSE, blocks |-> blocks, seq |-> s.seq, stamped |-> FALSE,
              h_seq |-> 0]
        ELSE [exported |-> TRUE, blocks |-> blocks, seq |-> s.seq + 1,
              stamped |-> header, h_seq |-> IF header THEN s.seq ELSE 0]

\* video_stream_export_frame_unguarded: the frame is written whatever the
\* state of the stream and the negotiated format
video_stream_export_frame_unguarded(s, state, blocks, header) ==
    LET found == lookup_format_info_from_spa_format(s.format.format)
        stride == SPA_ROUND_UP_N(s.format.width * found.data.bpp, 4)
        size == s.format.height * stride
    IN  [exported |-> TRUE,
         blocks |-> [i \in 1..Len(blocks) |->
                       IF ~blocks[i].mapped THEN blocks[i]
                       ELSE [blocks[i] EXCEPT
                               !.maxsize = size, !.type = "MemPtr",
                               !.chunk = [offset |-> 0, stride |-> stride,
                                          size |-> size]]],
         seq |-> IF header THEN s.seq + 1 ELSE s.seq,
         stamped |-> header, h_seq |-> IF header THEN s.seq ELSE 0]

\* video_stream_export_frame of the export adapter: blocks are the buffer's
\* data blocks (mapped flag and chunk), header says whether the buffer has a
\* header meta, h_seq is the number written into it (h->seq = seq++);
\* nothing is written unless the stream is streaming and the negotiated
\* format is in the catalog
video_stream_export_frame(s, state, blocks, header) ==
    LET found == lookup_format_info_from_spa_format(s.format.format)
        stride == SPA_ROUND_UP_N(s.format.width * found.data.bpp, 4)
        size == s.format.height * stride
    IN  IF state # "streaming" \/ ~found.found
        THEN [exported |-> FALSE, blocks |-> blocks, seq |-> s.seq, stamped |-> FALSE,
              h_seq |-> 0]
        ELSE [exported |-> TRUE,
              blocks |-> [i \in 1..Len(blocks) |->
                            IF ~blocks[i].mapped THEN blocks[i]
                            ELSE [blocks[i] EXCEPT
                                    !.maxsize = size, !.type = "MemPtr",
                                    !.chunk = [offset |-> 0, stride |-> stride,
                                               size |-> size]]],
              seq |-> IF header THEN s.seq + 1 ELSE s.seq,
              stamped |-> header, h_seq |-> IF header THEN s.seq ELSE 0]

\* renegotiate_format, run by the loop when the renegotiation event fires.
\* data is the pointer the event was registered with; the handler uses it as
\* the engine, so with any other object behind it the session pointer it
\* loads is not a pointer and the lock call faults
renegotiate_format(data, s, version, alloc_ok) ==
    LET built == build_format_params(s.format_info, version, alloc_ok)
    IN  IF data # "obs_pw_stream"
        THEN [crashed |-> TRUE, sent |-> FALSE, params |-> << >>, torn_down |-> FALSE]
        ELSE IF ~built.ok
        THEN [crashed |-> FALSE, sent |-> FALSE, params |-> << >>, torn_down |-> TRUE]
        ELSE [crashed |-> FALSE, sent |-> TRUE, params |-> built.params,
              torn_down |-> FALSE]

(***************************************************************************)
(* The inputs of the callbacks.                                             *)
(***************************************************************************)
Dims == 1..MaxDim

\* matrix and range pairs a producer announces; BT2020 and UNKNOWN are values
\* the plugin has no case for
ColourPairs ==
    { << "RGB", "0_255" >>, << "BT601", "16_235" >>, << "BT709", "0_255" >>,
      << "BT2020", "UNKNOWN" >>, << "UNKNOWN", "16_235" >> }

Param(media_type, media_subtype, format, has_modifier, modifier, width, height, colour) ==
    [null |-> FALSE, parse_ok |-> TRUE, subtype_ok |-> TRUE,
     media_type |-> media_type, media_subtype |-> media_subtype,
     format |-> format, has_modifier |-> has_modifier, modifier |-> modifier,
     width |-> width, height |-> height,
     color_matrix |-> colour[1], color_range |-> colour[2]]

\* the fixated formats a producer can answer the proposals with
Offers(enum_params) ==
    UNION { IF enum_params[i].has_modifier
            THEN { [format |-> enum_params[i].spa_format, has_modifier |-> TRUE,
                    modifier |-> enum_params[i].modifier_choice[j]]
                   : j \in 1..Len(enum_params[i].modifier_choice) }
            ELSE { [format |-> enum_params[i].spa_format, has_modifier |-> FALSE,
                    modifier |-> 0] }
            : i \in 1..Len(enum_params) }

RawParams(enum_params, colours) ==
    { Param("video", "raw", o.format, o.has_modifier, o.modifier, w, h, c)
      : o \in Offers(enum_params), w \in Dims, h \in Dims, c \in colours }

\* compressed formats, which only the async adapter has a case for
CompressedParams ==
    { Param("video", st, SPA_VIDEO_FORMAT_UNKNOWN, FALSE, 0, MaxDim, 1, << "UNKNOWN", "UNKNOWN" >>)
      : st \in {"mjpg", "h264"} }

\* params every handler has to turn down: a NULL pointer, a pod that does not
\* parse, a media type other than video, a subtype without a case, and a pod
\* whose subtype properties do not parse
RejectedParams ==
    LET video == Param("video", "raw", "RGBA", FALSE, 0, 1, 1, << "RGB", "0_255" >>)
    IN  { [video EXCEPT !.null = TRUE],
          [video EXCEPT !.parse_ok = FALSE],
          [video EXCEPT !.media_type = "audio"],
          [video EXCEPT !.media_subtype = "dsp"],
          [video EXCEPT !.subtype_ok = FALSE] }

NoCursor ==
    [present |-> FALSE, id |-> 0, x |-> 0, y |-> 0, hotspot_x |-> 0, hotspot_y |-> 0,
     bitmap |-> [present |-> FALSE, width |-> 0, height |-> 0,
                 format |-> SPA_VIDEO_FORMAT_UNKNOWN]]

NoCrop == [present |-> FALSE, x |-> 0, y |-> 0, width |-> 0, height |-> 0]

\* crop metas around the negotiated size w x h: the whole frame, shifted,
\* narrower, lower, larger, and one with an empty size
CropMetas(w, h) ==
    { NoCrop } \cup
    { [present |-> TRUE, x |-> c[1], y |-> c[2], width |-> c[3], height |-> c[4]]
      : c \in { << 0, 0, w, h >>, << 10, 0, w, h >>, << 0, 10, w, h >>,
                << 0, 0, w - 1, h >>, << 0, 0, w, h - 1 >>, << 0, 0, w + 1, h + 1 >>,
                << 0, 0, 0, h >> } }

Buffer(size, type, mapped, crop) ==
    [size |-> size, type |-> type, mapped |-> mapped, crop |-> crop, cursor |-> NoCursor]

\* the pictures the codec can give back for a packet: none, or one of a size
Pictures ==
    { [present |-> FALSE, width |-> 0, height |-> 0],
      [present |-> TRUE, width |-> MaxDim, height |-> 1] }

(***************************************************************************)
(* The engine between connect and destroy.  Every callback is an action;   *)
(* a profile names the inputs the producer and the host draw from, and     *)
(* each specification below runs the actions under its own profile.         *)
(***************************************************************************)
\* create_format_info_output is not part of the sources: the export engine is
\* taken to offer every catalog format, without modifiers
create_format_info_output ==
    [i \in 1..Len(supported_formats) |->
        format_info_entry(supported_formats[i].spa_format, << >>)]

\* lists the display engine is started with: one format with two explicit
\* modifiers; two formats, the first with an explicit and the implicit modifier
SyncLists ==
    { create_format_info_sync(<< 1 >>, << TRUE >>, << 0, 1 >>, FALSE),
      create_format_info_sync(<< 1, 4 >>, << TRUE, FALSE >>, << 0 >>, TRUE) }

\* the state obs_pipewire_connect_stream returns in: the proposals are sent
Connected(engines) ==
    /\ \E e \in engines :
          /\ server_version = e[2]
          /\ stream = NewStream(e[1], e[3])
          /\ pw = [NewPw EXCEPT
                     !.enum_params = build_format_params(e[3], e[2], TRUE).params,
                     !.sent_by = "connect", !.state = "connecting"]
    /\ crashed = FALSE
    /\ last = NoCall
    /\ session = NoSession

Compressed(param) == ~param.null /\ param.media_subtype \in {"mjpg", "h264"}

param_changed(s, version, id, param, fail_at, stack_types) ==
    IF s.impl = "video_async"
    THEN video_async_param_changed(s, id, param, fail_at, stack_types)
    ELSE IF s.impl = "video_output" THEN video_output_param_changed(s, id, param)
    ELSE on_param_changed_cb(s, version, id, param)

\* the param_changed callback; a Format param starts a new round of buffers
ParamChanged(profile) ==
    /\ ~crashed
    /\ pw.state # "unconnected"
    /\ \E id \in profile.ids,
          param \in profile.rejected
                    \cup { Param("video", "raw", o.format, o.has_modifier, o.modifier,
                                 d[1], d[2], c)
                           : o \in Offers(pw.enum_params), d \in profile.dims,
                             c \in profile.colours }
                    \cup (IF stream.impl = "video_async" THEN profile.compressed ELSE {}) :
       \E fail_at \in (IF stream.impl = "video_async" /\ Compressed(param)
                       THEN profile.failures ELSE {"none"}),
          stack_types \in (IF stream.impl = "video_async" /\ Compressed(param)
                           THEN profile.masks ELSE {{"MemPtr"}}) :
          LET r == param_changed(stream, server_version, id, param, fail_at, stack_types)
              format == id = "Format" /\ ~param.null
          IN  \* pw_stream_update_params can fail; no handler looks at its result
              \E send_ok \in (IF r.reply.sent THEN profile.sends ELSE {TRUE}) :
              /\ stream' = r.stream
              /\ pw' = [pw EXCEPT !.reply = IF r.reply.sent /\ send_ok THEN r.reply ELSE @,
                                  !.queue = IF format THEN << >> ELSE @,
                                  !.state = IF format THEN "streaming" ELSE @]
              /\ last' = [op |-> "param_changed", id |-> id, param |-> param,
                          sent |-> r.reply.sent, send_ok |-> send_ok,
                          negotiated |-> stream.negotiated, fail_at |-> fail_at]
    /\ UNCHANGED << server_version, crashed, session >>

\* the producer queues one of its free buffers
Enqueue(profile) ==
    /\ ~crashed
    /\ pw.state = "streaming"
    /\ \E b \in profile.pool :
          /\ \A i \in 1..Len(pw.queue) : pw.queue[i] # b
          /\ pw' = [pw EXCEPT !.queue = Append(@, b)]
    /\ last' = NoCall
    /\ UNCHANGED << server_version, stream, crashed, session >>

\* what the latest queued buffer can hold: a payload or none, in plain memory
\* or, once the engine has announced it, as DMA-BUF; crop metas around the
\* negotiated size
BufferContents(profile) ==
    LET types == {"MemPtr"} \cup
                 (IF Display(stream.impl) /\ pw.reply.sent
                     /\ "DmaBuf" \in pw.reply.buffer_types
                  THEN profile.types ELSE {})
        w == IF stream.format.width = 0 THEN 1 ELSE stream.format.width
        h == IF stream.format.height = 0 THEN 1 ELSE stream.format.height
    IN  { [Buffer(size, type, mapped, crop) EXCEPT !.cursor = cursor]
          : cursor \in (IF Display(stream.impl) THEN profile.cursors ELSE {NoCursor}),
            size \in profile.sizes, type \in types,
            mapped \in (IF Display(stream.impl) THEN {TRUE} ELSE profile.mapped),
            crop \in (IF Display(stream.impl) /\ profile.crops
                      THEN CropMetas(w, h) ELSE {NoCrop}) }

\* the process callback; with nothing queued no buffer is looked at
Process(profile) ==
    /\ ~crashed
    /\ pw.state = "streaming"
    /\ stream.impl # "video_output"
    /\ \E buf \in (IF pw.queue = << >> THEN {Buffer(0, "MemPtr", TRUE, NoCrop)}
                    ELSE BufferContents(profile)) :
       \E import_ok \in (IF buf.type = "DmaBuf" THEN BOOLEAN ELSE {TRUE}),
          picture \in (IF stream.impl = "video_async" THEN Pictures
                       ELSE {CHOOSE p \in Pictures : ~p.present}) :
       \E t \in on_process_cb(stream, server_version, pw.queue, buf, import_ok, picture) :
          /\ stream' = t.stream
          /\ crashed' = t.crashed
          /\ pw' = [pw EXCEPT !.queue = << >>,
                              !.reneg_signalled = @ \/ t.signalled]
          /\ last' = [op |-> "process", negotiated |-> stream.negotiated,
                      queued |-> pw.queue,
                      ended |-> ~t.crashed, dequeued |-> t.dequeued,
                      returned |-> t.returned, latest |-> t.latest,
                      converted |-> t.converted, frames |-> t.frames,
                      signalled |-> t.signalled, path |-> t.path,
                      format |-> stream.format, buf |-> buf,
                      gs |-> process_graphics_calls(stream, pw.queue, buf),
                      decoder_ran |-> /\ stream.impl = "video_async"
                                      /\ stream.format.media_subtype # "raw"
                                      /\ t.latest # 0 /\ buf.size # 0,
                      decoder_ret |-> pipewire_decode_frame(ZeroFrame, stream.decoder,
                                                            picture).ret]
    /\ UNCHANGED << server_version, session >>

\* the loop runs the renegotiation event
Renegotiate ==
    /\ ~crashed
    /\ pw.reneg_signalled
    /\ \E alloc_ok \in BOOLEAN :
          LET r == renegotiate_format(stream.reneg.data, stream, server_version, alloc_ok)
          IN  /\ crashed' = r.crashed
              /\ pw' = [pw EXCEPT !.reneg_signalled = FALSE,
                                  !.enum_params = IF r.sent THEN r.params ELSE @,
                                  !.sent_by = IF r.sent THEN "renegotiate" ELSE @,
                                  !.state = IF r.torn_down THEN "unconnected" ELSE @]
              \* the handler runs on the thread of the loop; when the builder
              \* fails it calls teardown_pipewire there and then unlocks the
              \* thread loop that teardown has destroyed and cleared
              /\ last' = [op |-> "renegotiate", sent |-> r.sent, params |-> r.params,
                          format_info |-> stream.format_info,
                          thread |-> "loop", teardown |-> r.torn_down,
                          unlock_after_teardown |-> r.torn_down]
    /\ UNCHANGED << server_version, stream, session >>

\* the host shows or hides the cursor
SetCursorVisible ==
    /\ ~crashed
    /\ Display(stream.impl)
    /\ \E cursor_visible \in BOOLEAN :
          stream' = obs_pipewire_stream_set_cursor_visible(stream, cursor_visible)
    /\ last' = [op |-> "set_cursor_visible"]
    /\ UNCHANGED << server_version, pw, crashed, session >>

\* the host draws the source
Render ==
    /\ ~crashed
    /\ stream.impl = "sync"
    /\ last' = [op |-> "render", draws |-> obs_pipewire_stream_video_render(stream)]
    /\ UNCHANGED << server_version, stream, pw, crashed, session >>

\* the host hands a frame and a free buffer to the export engine
Export ==
    /\ ~crashed
    /\ stream.impl = "video_output"
    /\ stream.seq < MaxSeq
    /\ \E n \in 1..2 : \E mapped \in [1..n -> BOOLEAN], header \in BOOLEAN :
          LET blocks == [i \in 1..n |->
                           [mapped |-> mapped[i], maxsize |-> 0, type |-> "Invalid",
                            chunk |-> [offset |-> 1, stride |-> 0, size |-> 0]]]
              r == video_stream_export_frame(stream, pw.state, blocks, header)
          IN  /\ stream' = [stream EXCEPT !.seq = r.seq]
              /\ last' = [op |-> "export", given |-> blocks, exported |-> r.exported,
                          blocks |-> r.blocks, stamped |-> r.stamped,
                          h_seq |-> r.h_seq, header |-> header]
    /\ UNCHANGED << server_version, pw, crashed, session >>

\* the plainest inputs: one size, one colour pair, one buffer with a payload
Plain ==
    [ids |-> {"Format"}, rejected |-> {}, dims |-> {<< MaxDim, MaxDim >>},
     colours |-> {<< "RGB", "0_255" >>}, compressed |-> {}, failures |-> {"none"},
     masks |-> {{"MemPtr"}}, pool |-> {1}, sizes |-> {1}, types |-> {},
     mapped |-> {TRUE}, crops |-> FALSE, sends |-> {TRUE}, cursors |-> {NoCursor}]


(***************************************************************************)
(* SpecNegotiation: the display engine, DMA-BUF import and renegotiation.   *)
(***************************************************************************)
NegotiationInputs == [Plain EXCEPT !.types = {"DmaBuf"}]

NegotiationInit ==
    Connected({ << "sync", v, l >> : v \in { << 0, 3, 33 >>, << 1, 0, 0 >> },
                                     l \in SyncLists })

NegotiationNext ==
    \/ ParamChanged(NegotiationInputs)
    \/ Enqueue(NegotiationInputs)
    \/ Process(NegotiationInputs)
    \/ Renegotiate

SpecNegotiation == NegotiationInit /\ [][NegotiationNext]_vars

(***************************************************************************)
(* SpecProcess: process ticks of the receiving engines on every path.       *)
(***************************************************************************)
ProcessInputs ==
    [Plain EXCEPT !.rejected = {p \in RejectedParams : ~p.null /\ ~p.parse_ok},
                  !.compressed = {p \in CompressedParams : p.media_subtype = "mjpg"},
                  !.failures = {"none", "packet", "open"},
                  !.pool = Buffers, !.sizes = {0, 1}, !.types = {"DmaBuf"},
                  !.mapped = BOOLEAN]

ProcessInit ==
    Connected({ << "sync", v, l >> : v \in { << 0, 3, 33 >>, << 1, 0, 0 >> },
                                     l \in { create_format_info_sync(
                                                 << 1 >>, << TRUE >>, << 0, 1 >>, FALSE) } }
              \cup { << "async", << 1, 0, 0 >>, create_format_info_async >>,
                     << "video_async", << 1, 0, 0 >>, create_format_info_async >> })

ProcessNext ==
    \/ ParamChanged(ProcessInputs)
    \/ Enqueue(ProcessInputs)
    \/ Process(ProcessInputs)

SpecProcess == ProcessInit /\ [][ProcessNext]_vars

(***************************************************************************)
(* SpecRender: crop metas and the draw calls of the display engine.         *)
(***************************************************************************)
RenderInputs == [Plain EXCEPT !.dims = Dims \X Dims, !.crops = TRUE]

RenderInit ==
    Connected({ << "sync", << 1, 0, 0 >>,
                   create_format_info_sync(<< 1 >>, << TRUE >>, << 0, 1 >>, FALSE) >> })

RenderNext ==
    \/ ParamChanged(RenderInputs)
    \/ Enqueue(RenderInputs)
    \/ Process(RenderInputs)
    \/ Render

SpecRender == RenderInit /\ [][RenderNext]_vars

(***************************************************************************)
(* SpecColour: raw formats of every size and colour pair, and the frames    *)
(* the encoding engines make of them.                                       *)
(***************************************************************************)
ColourInputs == [Plain EXCEPT !.dims = Dims \X Dims, !.colours = ColourPairs]

ColourInit ==
    Connected({ << "async", << 1, 0, 0 >>, create_format_info_async >>,
                << "video_async", << 1, 0, 0 >>, create_format_info_async >> })

ColourNext ==
    \/ ParamChanged(ColourInputs)
    \/ Enqueue(ColourInputs)
    \/ Process(ColourInputs)

SpecColour == ColourInit /\ [][ColourNext]_vars

(***************************************************************************)
(* SpecExport: the export engine.                                           *)
(***************************************************************************)
ExportInputs == [Plain EXCEPT !.dims = Dims \X Dims]

ExportInit ==
    Connected({ << "video_output", << 1, 0, 0 >>, create_format_info_output >> })

ExportNext ==
    \/ ParamChanged(ExportInputs)
    \/ Export

SpecExport == ExportInit /\ [][ExportNext]_vars

(***************************************************************************)
(* The session of pipewire.c: the host thread calls the public operations, *)
(* the processing thread (the pw_thread_loop) runs the callbacks.  A        *)
(* callback runs with the thread-loop lock held, so it is one step taken    *)
(* while the lock is free; a public operation is one step per stretch the   *)
(* processing thread cannot cut into, and a step of its own wherever it can. *)
(***************************************************************************)
Streams == 1..MaxStreams

\* no engine allocated under this reference
NoEngine ==
    [native |-> "none", allocated |-> FALSE, async |-> FALSE,
     registered |-> FALSE, teardowns |-> 0, sink |-> << >>]

\* the session obs_pipewire_create returns: thread loop started, core
\* connected, first sync answered, no engine
NewSession ==
    [created |-> TRUE, thread_loop |-> "running", context |-> TRUE, core |-> TRUE,
     pipewire_fd |-> "open", sync_id |-> 0, streams |-> << >>,
     lock |-> "free", pending |-> {}, natives |-> << >>,
     host |-> [pc |-> "idle", e |-> 0, ret |-> "idle", woken |-> "no"],
     engines |-> [e \in Streams |-> NoEngine]]

pw_thread_loop_lock(se) == [se EXCEPT !.lock = "host"]

pw_thread_loop_unlock(se) == [se EXCEPT !.lock = "free"]

\* a call into libpipewire by the host thread, and whether it holds the lock
native(se, call) ==
    [se EXCEPT !.natives = Append(@, [call |-> call, locked |-> se.lock = "host"])]

\* pw_thread_loop_signal(loop, FALSE) wakes the thread inside
\* pw_thread_loop_wait, if there is one; the cause is kept for the record
pw_thread_loop_signal(se, cause) ==
    IF se.host.pc = "rt_wait" /\ se.host.woken = "no"
    THEN [se EXCEPT !.host.woken = cause] ELSE se

g_ptr_array_keep(array, data) == array

\* g_ptr_array_remove: the first element equal to data is taken out
g_ptr_array_remove(array, data) ==
    IF \E i \in 1..Len(array) : array[i] = data
    THEN LET i == CHOOSE k \in 1..Len(array) :
                     array[k] = data /\ \A j \in 1..(k - 1) : array[j] # data
         IN  SubSeq(array, 1, i - 1) \o SubSeq(array, i + 1, Len(array))
    ELSE array

\* the list init_format_info gives the engine
init_format_info(async) ==
    IF async THEN create_format_info_async
    ELSE create_format_info_sync(<< 1 >>, << TRUE >>, << 0 >>, FALSE)

obs_pipewire_connect_stream_always(se, e, async, version, alloc_ok) ==
    [ok |-> alloc_ok,
     session |-> [se EXCEPT !.natives = << >>,
                            !.engines[e] = [NoEngine EXCEPT !.registered = TRUE],
                            !.streams = Append(@, e)]]

\* obs_pipewire_connect_stream for the engine reference e
obs_pipewire_connect_stream(se, e, async, version, alloc_ok) ==
    LET s1 == pw_thread_loop_lock([se EXCEPT !.natives = << >>])
        s2 == native(native(native(s1, "pw_loop_add_event"), "pw_stream_new"),
                     "pw_stream_add_listener")
        b == build_format_params(init_format_info(async), version, alloc_ok)
    IN  IF ~b.ok
        THEN [ok |-> FALSE, session |-> pw_thread_loop_unlock(s2)]
        ELSE [ok |-> TRUE,
              session |->
                  [pw_thread_loop_unlock(native(s2, "pw_stream_connect"))
                   EXCEPT !.engines[e] =
                              [NoEngine EXCEPT !.native = "connected",
                                               !.allocated = TRUE, !.async = async,
                                               !.registered = TRUE],
                          !.streams = Append(@, e)]]

\* obs_pipewire_stream_show / obs_pipewire_stream_hide
obs_pipewire_stream_set_active(se, e) ==
    IF se.engines[e].native # "none"
    THEN native([se EXCEPT !.natives = << >>], "pw_stream_set_active")
    ELSE [se EXCEPT !.natives = << >>]

\* obs_pipewire_stream_destroy up to obs_leave_graphics: the null frame of an
\* async engine, the removal from the collection, the textures
stream_destroy_begin(se, e) ==
    [se EXCEPT !.natives = << >>,
               !.engines[e].sink = IF se.engines[e].async THEN Append(@, "null") ELSE @,
               !.engines[e].teardowns = IF @ < 2 THEN @ + 1 ELSE @,
               !.streams = g_ptr_array_remove(@, e)]

\* pw_stream_disconnect
stream_destroy_disconnect(se, e) ==
    [native(se, "pw_stream_disconnect") EXCEPT !.engines[e].native = "disconnected"]

\* pw_stream_destroy, clear_format_info, bfree
stream_destroy_free(se, e) ==
    [native(se, "pw_stream_destroy") EXCEPT !.engines[e].native = "destroyed",
                                            !.engines[e].allocated = FALSE]

\* teardown_pipewire up to pw_thread_loop_stop.  pw_thread_loop_wait is
\* called without the lock: the unlock inside pthread_cond_wait fails with
\* EPERM on the recursive mutex and the wait returns at once, waiting for
\* nothing
teardown_stop(se) ==
    IF se.thread_loop = "running"
    THEN [native(native(se, "pw_thread_loop_wait"), "pw_thread_loop_stop")
          EXCEPT !.thread_loop = "stopped"]
    ELSE se

\* the rest of teardown_pipewire and the bfree of obs_pipewire_destroy
teardown_release(se) ==
    [se EXCEPT !.context = FALSE, !.thread_loop = "null", !.core = FALSE,
               !.pipewire_fd = "closed", !.created = FALSE]

\* pw_core_sync: the server answers with a done event that carries the seq
pw_core_sync(se) ==
    [native(se, "pw_core_sync") EXCEPT !.sync_id = se.sync_id + 1,
                                       !.pending = @ \cup {se.sync_id + 1}]

on_core_done_cb_any(se, id, seq) == pw_thread_loop_signal(se, "done")

on_core_done_cb(se, id, seq) ==
    IF id = "PW_ID_CORE" /\ se.sync_id = seq
    THEN pw_thread_loop_signal(se, "done") ELSE se

on_core_error_cb(se) == pw_thread_loop_signal(se, "error")

HostIdle == session.created /\ session.host.pc = "idle"

LoopFree == session.created /\ session.thread_loop = "running" /\ session.lock = "free"

SessionUnchanged == UNCHANGED << server_version, stream, pw, crashed >>

\* the host connects an engine; references are handed out in order
ConnectStream(async, alloc_ok) ==
    /\ HostIdle /\ session.lock = "free"
    /\ \E e \in Streams :
          /\ ~session.engines[e].registered
          /\ \A d \in 1..(e - 1) : session.engines[d].registered
          /\ LET r == obs_pipewire_connect_stream(session, e, async, server_version,
                                                  alloc_ok)
             IN  /\ session' = r.session
                 /\ last' = [op |-> "connect_stream", e |-> e, ok |-> r.ok]
    /\ SessionUnchanged

Show(e) ==
    /\ HostIdle /\ session.engines[e].allocated
    /\ session' = obs_pipewire_stream_set_active(session, e)
    /\ last' = [op |-> "show", e |-> e]
    /\ SessionUnchanged

Hide(e) ==
    /\ HostIdle /\ session.engines[e].allocated
    /\ session' = obs_pipewire_stream_set_active(session, e)
    /\ last' = [op |-> "hide", e |-> e]
    /\ SessionUnchanged

\* obs_pipewire_stream_destroy(NULL)
StreamDestroyNull ==
    /\ HostIdle
    /\ session' = [session EXCEPT !.natives = << >>]
    /\ last' = [op |-> "stream_destroy", e |-> 0]
    /\ SessionUnchanged

\* the host destroys an engine it holds
StreamDestroy(e) ==
    /\ HostIdle /\ session.engines[e].allocated
    /\ session' = [stream_destroy_begin(session, e)
                   EXCEPT !.host = [@ EXCEPT !.pc = "sd_disconnect", !.e = e,
                                             !.ret = "idle"]]
    /\ last' = [op |-> "stream_destroy", e |-> e]
    /\ SessionUnchanged

StreamDisconnect ==
    /\ session.host.pc = "sd_disconnect"
    /\ session' = [stream_destroy_disconnect(session, session.host.e)
                   EXCEPT !.host.pc = "sd_free"]
    /\ last' = [op |-> "stream_disconnect", e |-> session.host.e]
    /\ SessionUnchanged

StreamFree ==
    /\ session.host.pc = "sd_free"
    /\ session' = [stream_destroy_free(session, session.host.e)
                   EXCEPT !.host.pc = session.host.ret, !.host.e = 0]
    /\ last' = [op |-> "stream_free", e |-> session.host.e]
    /\ SessionUnchanged

\* obs_pipewire_destroy is called
Destroy ==
    /\ HostIdle
    /\ session' = [session EXCEPT !.host.pc = "destroy_loop", !.natives = << >>]
    /\ last' = [op |-> "destroy"]
    /\ SessionUnchanged

\* one turn of the while loop of obs_pipewire_destroy, or its end
DestroyLoop ==
    /\ session.host.pc = "destroy_loop"
    /\ IF Len(session.streams) > 0
       THEN LET e == session.streams[1]
            IN  /\ session' = [stream_destroy_begin(session, e)
                               EXCEPT !.host = [@ EXCEPT !.pc = "sd_disconnect", !.e = e,
                                                         !.ret = "destroy_loop"]]
                /\ last' = [op |-> "stream_destroy", e |-> e]
       ELSE /\ session' = [session EXCEPT !.host.pc = "teardown", !.natives = << >>]
            /\ last' = [op |-> "streams_cleared"]
    /\ SessionUnchanged

TeardownStop ==
    /\ session.host.pc = "teardown"
    /\ session' = [teardown_stop(session) EXCEPT !.host.pc = "release"]
    /\ last' = [op |-> "teardown_stop"]
    /\ SessionUnchanged

TeardownRelease ==
    /\ session.host.pc = "release"
    /\ session' = [teardown_release(session) EXCEPT !.host.pc = "gone"]
    /\ last' = [op |-> "teardown_release"]
    /\ SessionUnchanged

\* obs_pipewire_roundtrip up to the wait, which gives the lock away
Roundtrip ==
    /\ HostIdle /\ session.lock = "free"
    /\ session.sync_id < MaxSeq
    /\ session' = [pw_thread_loop_unlock(
                       native(pw_core_sync(pw_thread_loop_lock(
                                  [session EXCEPT !.natives = << >>])),
                              "pw_thread_loop_wait"))
                   EXCEPT !.host.pc = "rt_wait", !.host.woken = "no"]
    /\ last' = [op |-> "roundtrip_wait", seq |-> session.sync_id + 1]
    /\ SessionUnchanged

\* the wait takes the lock back and obs_pipewire_roundtrip returns
RoundtripReturn ==
    /\ session.host.pc = "rt_wait" /\ session.host.woken # "no"
    /\ session.lock = "free"
    /\ session' = [session EXCEPT !.host.pc = "idle", !.host.woken = "no"]
    /\ last' = [op |-> "roundtrip", seq |-> session.sync_id,
                woken_by |-> session.host.woken,
                done_delivered |-> session.sync_id \notin session.pending]
    /\ SessionUnchanged

\* the processing thread delivers a done event
CoreDone(seq) ==
    /\ LoopFree /\ seq \in session.pending
    /\ session' = [on_core_done_cb(session, "PW_ID_CORE", seq)
                   EXCEPT !.pending = @ \ {seq}]
    /\ last' = [op |-> "core_done", seq |-> seq]
    /\ SessionUnchanged

\* the processing thread delivers a core error
CoreError ==
    /\ LoopFree
    /\ session' = on_core_error_cb(session)
    /\ last' = [op |-> "core_error"]
    /\ SessionUnchanged

\* the processing thread runs the process callback of a connected engine; an
\* async engine hands the frame it made to the sink
ProcessCallback(e, frames) ==
    /\ LoopFree
    /\ session.engines[e].native = "connected"
    /\ frames = 1 => (session.engines[e].async /\ Len(session.engines[e].sink) < MaxSink)
    /\ session' = [session EXCEPT !.engines[e].sink =
                                      IF frames = 1 THEN Append(@, "frame") ELSE @]
    /\ last' = [op |-> "process_cb", e |-> e, frames |-> frames]
    /\ SessionUnchanged

SessionInit ==
    /\ server_version = << 1, 0, 0 >>
    /\ stream = NewStream("async", create_format_info_async)
    /\ pw = NewPw
    /\ crashed = FALSE
    /\ last = NoCall
    /\ session = NewSession

HostSteps ==
    \/ StreamDisconnect
    \/ StreamFree
    \/ DestroyLoop
    \/ TeardownStop
    \/ TeardownRelease

SessionNext ==
    \/ \E async \in BOOLEAN, alloc_ok \in BOOLEAN : ConnectStream(async, alloc_ok)
    \/ \E e \in Streams : Show(e)
    \/ \E e \in Streams : Hide(e)
    \/ StreamDestroyNull
    \/ \E e \in Streams : StreamDestroy(e)
    \/ Destroy
    \/ HostSteps
    \/ \E e \in Streams, frames \in 0..1 : ProcessCallback(e, frames)

SpecSession == SessionInit /\ [][SessionNext]_vars

\* the host thread is scheduled: a public operation that can go on does
FairSpecSession == SpecSession /\ WF_vars(HostSteps)

(***************************************************************************)
(* SpecRoundtrip: round trips of the host against the done and error        *)
(* events the processing thread delivers.                                   *)
(***************************************************************************)
RoundtripNext ==
    \/ Roundtrip
    \/ RoundtripReturn
    \/ \E seq \in 1..MaxSeq : CoreDone(seq)
    \/ CoreError
    \/ \E async \in BOOLEAN : ConnectStream(async, TRUE)
    \/ \E e \in Streams : Show(e)

SpecRoundtrip == SessionInit /\ [][RoundtripNext]_vars

(***************************************************************************)
(* SpecTeardown: the destroy handlers of the adapters, called with the      *)
(* engine or with a null reference.                                         *)
(***************************************************************************)
\* video_stream_get_stream: the assert reads obs_pw_stream->impl; a build
\* with NDEBUG has no assert and only casts the pointer
video_stream_get_stream(null, asserts) == [crashed |-> null /\ asserts]

Destroyed(s, frames) == [stream |-> s, crashed |-> FALSE, frames |-> frames, freed |-> TRUE]

Untouched(s) == [stream |-> s, crashed |-> FALSE, frames |-> << >>, freed |-> FALSE]

NullRead(s) == [stream |-> s, crashed |-> TRUE, frames |-> << >>, freed |-> FALSE]

pipewire_destroy_decoder(decoder) == ZeroDecoder

\* video_stream_destroy of the display adapter: the engine is looked up
\* before the null check
video_sync_stream_destroy(s, null, asserts) ==
    IF video_stream_get_stream(null, asserts).crashed THEN NullRead(s)
    ELSE IF null THEN Untouched(s)
    ELSE Destroyed([s EXCEPT !.cursor.texture = "null", !.texture = "null",
                             !.format_info = << >>], << >>)

\* video_stream_destroy of the async adapter
video_async_stream_destroy(s, null, asserts) ==
    IF null THEN Untouched(s)
    ELSE IF video_stream_get_stream(null, asserts).crashed THEN NullRead(s)
    ELSE Destroyed([s EXCEPT !.decoder = IF s.format.media_subtype # "raw"
                                         THEN pipewire_destroy_decoder(@) ELSE @,
                             !.format_info = << >>], << "null" >>)

\* video_stream_destroy of the export adapter
video_output_stream_destroy(s, null, asserts) ==
    IF null THEN Untouched(s)
    ELSE IF video_stream_get_stream(null, asserts).crashed THEN NullRead(s)
    ELSE Destroyed([s EXCEPT !.format_info = << >>], << >>)

\* the calls into the graphics subsystem video_stream_destroy makes: the
\* display adapter clears both textures, the other adapters hold none
destroy_graphics_calls(s, null, asserts) ==
    IF s.impl = "video_sync" /\ ~null
    THEN << "obs_enter_graphics", "gs_texture_destroy(cursor.texture)",
            "gs_texture_destroy(texture)", "obs_leave_graphics" >>
    ELSE << >>

video_stream_destroy(s, null, asserts) ==
    IF s.impl = "video_sync" THEN video_sync_stream_destroy(s, null, asserts)
    ELSE IF s.impl = "video_async" THEN video_async_stream_destroy(s, null, asserts)
    ELSE video_output_stream_destroy(s, null, asserts)

\* the host destroys the engine, or calls destroy with a null reference
AdapterDestroy(null, asserts) ==
    /\ ~crashed
    /\ pw.state # "unconnected"
    /\ LET r == video_stream_destroy(stream, null, asserts)
       IN  /\ stream' = r.stream
           /\ crashed' = r.crashed
           /\ pw' = [pw EXCEPT !.state = IF r.freed THEN "unconnected" ELSE @,
                               !.queue = IF r.freed THEN << >> ELSE @]
           /\ last' = [op |-> "destroy", impl |-> stream.impl, null |-> null,
                       crashed |-> r.crashed, frames |-> r.frames, freed |-> r.freed,
                       changed |-> r.stream # stream,
                       gs |-> destroy_graphics_calls(stream, null, asserts)]
    /\ UNCHANGED << server_version, session >>

TeardownInputs ==
    [Plain EXCEPT !.compressed = {p \in CompressedParams : p.media_subtype = "mjpg"},
                  !.failures = {"none", "open"}, !.dims = Dims \X Dims]

TeardownInit ==
    Connected({ << "video_sync", << 1, 0, 0 >>,
                   create_format_info_sync(<< 1 >>, << TRUE >>, << 0 >>, FALSE) >>,
                << "video_async", << 1, 0, 0 >>, create_format_info_async >>,
                << "video_output", << 1, 0, 0 >>, create_format_info_output >> })

\* the callbacks of the display adapter are not run here
TeardownNext ==
    \/ stream.impl # "video_sync" /\ ParamChanged(TeardownInputs)
    \/ stream.impl # "video_sync" /\ Enqueue(TeardownInputs)
    \/ stream.impl # "video_sync" /\ Process(TeardownInputs)
    \/ \E null \in BOOLEAN, asserts \in BOOLEAN : AdapterDestroy(null, asserts)

SpecTeardown == TeardownInit /\ [][TeardownNext]_vars

(***************************************************************************)
(* SpecSend: param_changed when pw_stream_update_params can fail.           *)
(***************************************************************************)
SendInputs ==
    [Plain EXCEPT !.rejected = {p \in RejectedParams : ~p.null /\ ~p.parse_ok},
                  !.dims = {<< 1, 1 >>, << MaxDim, MaxDim >>}, !.sends = BOOLEAN]

SendInit ==
    Connected({ << "sync", << 1, 0, 0 >>,
                   create_format_info_sync(<< 1 >>, << TRUE >>, << 0 >>, FALSE) >>,
                << "async", << 1, 0, 0 >>, create_format_info_async >>,
                << "video_output", << 1, 0, 0 >>, create_format_info_output >> })

SendNext ==
    \/ ParamChanged(SendInputs)
    \/ Enqueue(SendInputs)

SpecSend == SendInit /\ [][SendNext]_vars

(***************************************************************************)
(* SpecVersion: the server version string of the core info event.           *)
(***************************************************************************)
\* a version string, as the dot-separated fields sscanf meets: a decimal
\* number or something else
Number(v) == [num |-> TRUE, value |-> v]

NotANumber == [num |-> FALSE, value |-> 0]

VersionStrings ==
    UNION { [1..n -> {NotANumber} \cup {Number(v) : v \in {0, 1, 3, 40}}] : n \in 0..3 }

\* sscanf(version, "%d.%d.%d", &dst->major, &dst->minor, &dst->micro): every
\* field converted before the first that is not a number is stored in dst,
\* the others keep what dst held
n_matches(version) ==
    IF Len(version) = 0 \/ ~version[1].num THEN 0
    ELSE IF Len(version) = 1 \/ ~version[2].num THEN 1
    ELSE IF Len(version) = 2 \/ ~version[3].num THEN 2
    ELSE 3

parse_pw_version(dst, version) ==
    [ok |-> n_matches(version) = 3,
     dst |-> [i \in 1..3 |-> IF i <= n_matches(version) THEN version[i].value
                             ELSE dst[i]]]

\* update_pw_versions: a failed parse is logged, the session keeps what
\* parse_pw_version left in server_version
update_pw_versions(version_info, version) == parse_pw_version(version_info, version)

\* on_core_info_cb
CoreInfo(version) ==
    /\ ~crashed
    /\ LET r == update_pw_versions(server_version, version)
       IN  /\ server_version' = r.dst
           /\ last' = [op |-> "core_info", version |-> version, ok |-> r.ok]
    /\ UNCHANGED << stream, pw, crashed, session >>

\* the session is bzalloc'ed, so the version is 0.0.0 before the first event
VersionInit ==
    /\ server_version = << 0, 0, 0 >>
    /\ \E f_info \in SyncLists : stream = NewStream("sync", f_info)
    /\ pw = NewPw
    /\ crashed = FALSE
    /\ last = NoCall
    /\ session = NoSession

VersionNext ==
    \/ \E version \in VersionStrings : CoreInfo(version)
    \/ BuildFormatParams(TRUE)

SpecVersion == VersionInit /\ [][VersionNext]_vars

(***************************************************************************)
(* SpecCreate: obs_pipewire_create, its failures, and the session it        *)
(* returns.                                                                 *)
(***************************************************************************)
\* before obs_pipewire_create: the host holds the fd, nothing else exists
NoObsPipewire ==
    [NewSession EXCEPT !.created = FALSE, !.thread_loop = "null",
                       !.context = FALSE, !.core = FALSE]

\* obs_pipewire_create: the thread loop and the context are made, the loop is
\* started, and under the lock the core is connected and the first sync is
\* waited for.  Either failure frees the struct and returns NULL; neither
\* destroys the context or the loop, and the second leaves the loop started
obs_pipewire_create(start_ok, connect_ok) ==
    LET made == [NoObsPipewire EXCEPT !.thread_loop = "new", !.context = TRUE]
        started == pw_thread_loop_lock([made EXCEPT !.thread_loop = "running"])
    IN  IF ~start_ok THEN [ok |-> FALSE, session |-> made]
        ELSE IF ~connect_ok
        THEN [ok |-> FALSE, session |-> pw_thread_loop_unlock(started)]
        ELSE [ok |-> TRUE,
              session |-> pw_thread_loop_unlock(
                              [started EXCEPT !.core = TRUE, !.created = TRUE])]

Create(start_ok, connect_ok) ==
    /\ ~session.created /\ session.host.pc = "idle"
    /\ LET r == obs_pipewire_create(start_ok, connect_ok)
       IN  /\ session' = r.session
           /\ last' = [op |-> "create", ok |-> r.ok]
    /\ SessionUnchanged

CreateInit ==
    /\ server_version = << 1, 0, 0 >>
    /\ stream = NewStream("async", create_format_info_async)
    /\ pw = NewPw
    /\ crashed = FALSE
    /\ last = NoCall
    /\ session = NoObsPipewire

CreateNext ==
    \/ \E start_ok \in BOOLEAN, connect_ok \in BOOLEAN : Create(start_ok, connect_ok)
    \/ SessionNext

SpecCreate == CreateInit /\ [][CreateNext]_vars

(***************************************************************************)
(* SpecBufferTypes: the buffer types every kind of engine announces, on     *)
(* servers on both sides of 0.3.24.  The display adapter's param_changed    *)
(* is on_param_changed_cb without the test of the async flag.               *)
(***************************************************************************)
BufferTypesInputs ==
    [Plain EXCEPT !.compressed = CompressedParams, !.masks = {{"MemPtr"}, {"DmaBuf"}, {}}]

BufferTypesInit ==
    Connected({ << impl, v, create_format_info_sync(<< 1 >>, << TRUE >>, << 0 >>, FALSE) >>
                : impl \in {"sync", "video_sync"}, v \in Versions }
              \cup { << impl, v, create_format_info_async >>
                     : impl \in {"async", "video_async"},
                       v \in { << 0, 0, 0 >>, << 1, 0, 0 >> } }
              \cup { << "video_output", v, create_format_info_output >>
                     : v \in { << 0, 0, 0 >>, << 1, 0, 0 >> } })

BufferTypesNext ==
    \/ ParamChanged(BufferTypesInputs)
    \/ Enqueue(BufferTypesInputs)

SpecBufferTypes == BufferTypesInit /\ [][BufferTypesNext]_vars

(***************************************************************************)
(* SpecCrop: crop metas on buffers with and without a payload, in formats  *)
(* the display engine can and cannot upload.                                *)
(***************************************************************************)
\* besides the formats it was offered, the producer may settle on a raw
\* format the engine has no texture format for
CropInputs ==
    [Plain EXCEPT !.rejected = { Param("video", "raw", "YUY2", FALSE, 0, MaxDim, MaxDim,
                                       << "RGB", "0_255" >>) },
                  !.sizes = {0, 1}, !.crops = TRUE]

CropInit ==
    Connected({ << "sync", << 1, 0, 0 >>,
                   create_format_info_sync(<< 1 >>, << TRUE >>, << 0 >>, FALSE) >> })

CropNext ==
    \/ ParamChanged(CropInputs)
    \/ Enqueue(CropInputs)
    \/ Process(CropInputs)

SpecCrop == CropInit /\ [][CropNext]_vars

(***************************************************************************)
(* SpecCursor: cursor metas of the display engine while the host shows and *)
(* hides the cursor, and what render makes of them.                         *)
(***************************************************************************)
CursorMeta(id, x, y, hotspot_x, bitmap) ==
    [present |-> TRUE, id |-> id, x |-> x, y |-> y, hotspot_x |-> hotspot_x,
     hotspot_y |-> 0, bitmap |-> bitmap]

Bitmap(width, height, format) ==
    [present |-> TRUE, width |-> width, height |-> height, format |-> format]

\* cursor metas: none, one with the invalid id 0, one without a bitmap
\* (bitmap_offset 0), two with a bitmap the engine can upload, one with an
\* empty bitmap and one with a bitmap in a format it cannot upload
CursorMetas ==
    { NoCursor,
      CursorMeta(0, 1, 1, 0, NoCursor.bitmap),
      CursorMeta(1, 1, 1, 0, NoCursor.bitmap),
      CursorMeta(1, 2, 1, 1, Bitmap(1, 1, "RGBA")),
      CursorMeta(1, 1, 1, 0, Bitmap(MaxDim, 1, "BGRA")),
      CursorMeta(1, 2, 1, 0, Bitmap(0, 1, "RGBA")),
      CursorMeta(1, 1, 1, 0, Bitmap(1, 1, "YUY2")) }

CursorInputs == [Plain EXCEPT !.sizes = {0, 1}, !.crops = TRUE, !.cursors = CursorMetas]

CursorInit ==
    Connected({ << "sync", << 1, 0, 0 >>,
                   create_format_info_sync(<< 1 >>, << TRUE >>, << 0 >>, FALSE) >> })

CursorNext ==
    \/ ParamChanged(CursorInputs)
    \/ Enqueue(CursorInputs)
    \/ Process(CursorInputs)
    \/ SetCursorVisible
    \/ Render

SpecCursor == CursorInit /\ [][CursorNext]_vars

(***************************************************************************)
(* SpecExportGuard: the export engine in front of a producer that may      *)
(* settle on a raw format the catalog does not hold.                        *)
(***************************************************************************)
ExportGuardInputs ==
    [Plain EXCEPT !.rejected = { Param("video", "raw", "NV12", FALSE, 0, MaxDim, 1,
                                       << "RGB", "0_255" >>) },
                  !.dims = { << 1, 1 >>, << MaxDim, MaxDim >> }]

ExportGuardNext ==
    \/ ParamChanged(ExportGuardInputs)
    \/ Export

SpecExportGuard == ExportInit /\ [][ExportGuardNext]_vars

(***************************************************************************)
(* SpecRenegotiation: DMA-BUF import failures and the renegotiation event  *)
(* of both display engines, on a server before and after 0.3.40.            *)
(***************************************************************************)
RenegotiationInit ==
    Connected({ << impl, v, l >> : impl \in {"sync", "video_sync"},
                                   v \in { << 0, 3, 33 >>, << 1, 0, 0 >> },
                                   l \in SyncLists })

RenegotiationNext ==
    \/ ParamChanged(NegotiationInputs)
    \/ Enqueue(NegotiationInputs)
    \/ Process(NegotiationInputs)
    \/ Renegotiate

SpecRenegotiation == RenegotiationInit /\ [][RenegotiationNext]_vars

(***************************************************************************)
(* SpecGraphics: the display engines on every path of process, and the     *)
(* destroy handler of the display adapter, with the calls they make into   *)
(* the graphics subsystem.                                                  *)
(***************************************************************************)
GraphicsInputs ==
    [Plain EXCEPT !.rejected = { Param("video", "raw", "YUY2", FALSE, 0, MaxDim, MaxDim,
                                       << "RGB", "0_255" >>) },
                  !.sizes = {0, 1}, !.types = {"DmaBuf"},
                  !.cursors = { NoCursor,
                                [present |-> TRUE, id |-> 1, x |-> 1, y |-> 1,
                                 hotspot_x |-> 0, hotspot_y |-> 0,
                                 bitmap |-> [present |-> TRUE, width |-> 1, height |-> 1,
                                             format |-> "RGBA"]] }]

GraphicsInit ==
    Connected({ << impl, << 1, 0, 0 >>,
                   create_format_info_sync(<< 1 >>, << TRUE >>, << 0 >>, FALSE) >>
                : impl \in {"sync", "video_sync"} })

GraphicsNext ==
    \/ ParamChanged(GraphicsInputs)
    \/ Enqueue(GraphicsInputs)
    \/ Process(GraphicsInputs)
    \/ SetCursorVisible
    \/ stream.impl = "video_sync" /\ AdapterDestroy(FALSE, FALSE)

SpecGraphics == GraphicsInit /\ [][GraphicsNext]_vars

(***************************************************************************)
(* SpecLists: the supported-format lists of the engines of one session as  *)
(* they lie in memory.  Every entry of a list points to a modifier array   *)
(* of its own; create, removal and clear work through these pointers.      *)
(***************************************************************************)
\* addresses for the modifier arrays of all the entries the engines can hold
Addrs == 1..(MaxStreams * MaxFormats)

NoLists ==
    [created |-> FALSE,
     heap |-> [a \in Addrs |-> [used |-> FALSE, array |-> << >>]],
     lists |-> [e \in Streams |-> [allocated |-> FALSE, entries |-> << >>]]]

\* the n lowest free addresses, in order
RECURSIVE da_init(_, _)
da_init(heap, n) ==
    IF n = 0 THEN << >>
    ELSE LET a == CHOOSE x \in Addrs :
                     ~heap[x].used /\ \A y \in Addrs : ~heap[y].used => x <= y
         IN  << a >> \o da_init([heap EXCEPT ![a].used = TRUE], n - 1)

\* the list of engine e as the functions of pipewire-utils-video.c see it
format_info_of(se, e) ==
    [i \in 1..Len(se.lists[e].entries) |->
        format_info_entry(se.lists[e].entries[i].spa_format,
                          se.heap[se.lists[e].entries[i].at].array)]

\* store_modifiers_shared: the engines keep their modifiers in one array per
\* position of the list
store_modifiers_shared(se, e, f_info) ==
    [se EXCEPT !.heap = [a \in Addrs |->
                            IF \E d \in Streams, i \in 1..Len(f_info) :
                                  /\ i <= Len(se.lists[d].entries)
                                  /\ se.lists[d].entries[i].at = a
                            THEN [used |-> TRUE,
                                  array |-> f_info[CHOOSE i \in 1..Len(f_info) :
                                                      \E d \in Streams :
                                                         /\ i <= Len(se.lists[d].entries)
                                                         /\ se.lists[d].entries[i].at = a
                                                  ].modifiers]
                            ELSE @[a]]]

\* writes the modifier arrays of f_info through the pointers of engine e
store_modifiers(se, e, f_info) ==
    [se EXCEPT !.heap = [a \in Addrs |->
                            IF \E i \in 1..Len(se.lists[e].entries) :
                                  se.lists[e].entries[i].at = a
                            THEN [used |-> TRUE,
                                  array |-> f_info[CHOOSE i \in 1..Len(se.lists[e].entries) :
                                                      se.lists[e].entries[i].at = a].modifiers]
                            ELSE @[a]]]

\* init_format_info: create_format_info_sync / _async push one entry per
\* format, each with a modifier array of its own (da_init, da_push_back_array)
ListCreate(e, f_info) ==
    /\ ~crashed
    /\ ~session.lists[e].allocated
    /\ LET at == da_init(session.heap, Len(f_info))
           made == [session EXCEPT
                      !.lists[e] = [allocated |-> TRUE,
                                    entries |-> [i \in 1..Len(f_info) |->
                                                   [spa_format |-> f_info[i].spa_format,
                                                    at |-> at[i]]]]]
       IN  session' = store_modifiers(made, e, f_info)
    /\ last' = [op |-> "list_create", e |-> e]
    /\ UNCHANGED << server_version, stream, pw, crashed >>

\* remove_modifier_from_format on the list of engine e, as process calls it
\* after a failed import
ListRemove(e, spa_format, modifier) ==
    /\ ~crashed
    /\ session.lists[e].allocated
    /\ \E o \in remove_modifier_from_format(format_info_of(session, e), server_version,
                                            spa_format, modifier) :
          /\ crashed' = o.crashed
          /\ session' = IF o.crashed THEN session
                        ELSE store_modifiers(session, e, o.f_info)
    /\ last' = [op |-> "list_remove", e |-> e]
    /\ UNCHANGED << server_version, stream, pw >>

\* clear_format_info at the destroy of engine e: every modifier array and the
\* list are freed
ListClear(e) ==
    /\ ~crashed
    /\ session.lists[e].allocated
    /\ session' = [session EXCEPT
                     !.heap = [a \in Addrs |->
                                 IF \E i \in 1..Len(session.lists[e].entries) :
                                       session.lists[e].entries[i].at = a
                                 THEN [used |-> FALSE, array |-> << >>]
                                 ELSE @[a]],
                     !.lists[e] = [allocated |-> FALSE, entries |-> << >>]]
    /\ last' = [op |-> "list_clear", e |-> e]
    /\ UNCHANGED << server_version, stream, pw, crashed >>

ListsInit ==
    /\ server_version \in { << 0, 3, 33 >>, << 1, 0, 0 >> }
    /\ stream = NewStream("video_sync", << >>)
    /\ pw = NewPw
    /\ crashed = FALSE
    /\ last = NoCall
    /\ session = NoLists

\* the lists the engines are created with: one format with two explicit
\* modifiers, or another format with the implicit modifier alone
ListsOfEngines ==
    { create_format_info_sync(<< 1 >>, << TRUE >>, << 0, 1 >>, FALSE),
      create_format_info_sync(<< 2 >>, << FALSE >>, << >>, TRUE) }

ListsNext ==
    \/ \E e \in Streams, f_info \in ListsOfEngines : ListCreate(e, f_info)
    \/ \E e \in Streams, i \in 1..2, modifier \in AnyModifier :
          ListRemove(e, supported_formats_sync[i], modifier)
    \/ \E e \in Streams : ListClear(e)

SpecLists == ListsInit /\ [][ListsNext]_vars

(***************************************************************************)
(* SpecNegotiated: the negotiated flag of the receiving engines over        *)
(* parameters they ignore or reject and over pending renegotiations.        *)
(***************************************************************************)
NegotiatedInputs ==
    [Plain EXCEPT !.rejected = RejectedParams,
                  !.compressed = {p \in CompressedParams : p.media_subtype = "mjpg"},
                  !.failures = {"none", "open"},
                  !.ids = {"Format", "Buffers"},
                  !.types = {"DmaBuf"}]

NegotiatedInit ==
    Connected({ << impl, << 1, 0, 0 >>,
                   create_format_info_sync(<< 1 >>, << TRUE >>, << 0 >>, FALSE) >>
                : impl \in {"sync", "video_sync"} }
              \cup { << "video_async", << 1, 0, 0 >>, create_format_info_async >> })

NegotiatedNext ==
    \/ ParamChanged(NegotiatedInputs)
    \/ Enqueue(NegotiatedInputs)
    \/ Process(NegotiatedInputs)
    \/ Renegotiate

SpecNegotiated == NegotiatedInit /\ [][NegotiatedNext]_vars

(***************************************************************************)
(* SpecSize: the size the display engines report against the region they   *)
(* draw, over crop metas around the negotiated size.                        *)
(***************************************************************************)
SizeInputs == [Plain EXCEPT !.dims = {<< 1, MaxDim >>, << MaxDim, MaxDim >>},
                            !.crops = TRUE]

SizeInit ==
    Connected({ << impl, << 1, 0, 0 >>,
                   create_format_info_sync(<< 1 >>, << TRUE >>, << 0 >>, FALSE) >>
                : impl \in {"sync", "video_sync"} })

SizeNext ==
    \/ ParamChanged(SizeInputs)
    \/ Enqueue(SizeInputs)
    \/ Process(SizeInputs)

SpecSize == SizeInit /\ [][SizeNext]_vars

(***************************************************************************)
(* Claims on the format operations.                                        *)
(***************************************************************************)
\* C1: build_format_params returns every modifier-qualified proposal before
\* any plain proposal, and exactly one plain proposal per list entry, in list
\* order, for every list and server version.
C1_ModifierProposalsFirst ==
    (last.op = "build" /\ last.result.ok) =>
        LET p == last.result.params
            n == Len(last.f_info)
            k == Len(p) - n
        IN  /\ k >= 0
            /\ \A i \in 1..k : p[i].has_modifier
            /\ \A i \in 1..n : /\ ~p[k + i].has_modifier
                               /\ p[k + i].spa_format = last.f_info[i].spa_format

\* a build for two entries that both carry modifiers on a server >= 0.3.33
C1_Witness ==
    /\ last.op = "build" /\ last.result.ok
    /\ Len(last.f_info) = 2
    /\ Len(last.result.params) = 4

\* C2: remove_modifier_from_format is idempotent: after a second call with the
\* same arguments the list is the one the first call left.
C2_RemoveIdempotent ==
    (last.op = "remove" /\ last.count = 2) => stream.format_info = last.after_first

\* a second removal, completed, of a modifier the entry held twice
C2_Witness ==
    /\ last.op = "remove" /\ last.count = 2 /\ ~crashed
    /\ \E held \in last.held :
          Cardinality({i \in 1..Len(held) : held[i] = last.modifier}) = 2

\* C3: on a server below 0.3.40 remove_modifier_from_format leaves the entry
\* of the given format with an empty modifier set, whichever modifier was
\* asked for and however many modifiers the entry held.
C3_OldServerClearsAll ==
    (/\ last.op = "remove"
     /\ ~check_pw_version(server_version, 0, 3, 40)
     /\ \A held \in last.held : Len(held) >= 1) =>
        \A i \in 1..Len(stream.format_info) :
            stream.format_info[i].spa_format = last.spa_format =>
                stream.format_info[i].modifiers = << >>

(***************************************************************************)
(* Claims on the engine.                                                    *)
(***************************************************************************)
\* proposal p offers pixel format f with modifier m
OffersModifier(p, f, m) ==
    /\ p.spa_format = f
    /\ p.has_modifier
    /\ \E j \in 1..Len(p.modifier_choice) : p.modifier_choice[j] = m

\* C4: when a tick whose DMA-BUF import failed with format F and modifier M
\* negotiated is followed by the renegotiation event, the event sends a
\* proposal set without any proposal for F that offers M, the process
\* survives, and the negotiated pixel format changes in a param_changed only
C4_RenegotiationOmitsModifier ==
    [][ /\ (last.op = "process" /\ last.path = "import failed" /\ last.ended
            /\ last'.op = "renegotiate")
           => /\ ~crashed'
              /\ last'.sent
              /\ pw'.sent_by = "renegotiate"
              /\ \A i \in 1..Len(pw'.enum_params) :
                    ~OffersModifier(pw'.enum_params[i], stream.format.format,
                                    stream.format.modifier)
        /\ last'.op # "param_changed" => stream'.format.format = stream.format.format
      ]_vars

\* C5: with k >= 1 buffers queued a tick dequeues all k, gives the k-1 older
\* ones back in their order untouched, and looks at the payload of none but
\* the one queued last; a frame it emits points into that buffer
C5_OnlyLatestConverted ==
    (last.op = "process" /\ Len(last.queued) >= 1)
    => LET k == Len(last.queued)
       IN  /\ last.dequeued = last.queued
           /\ last.latest = last.queued[k]
           /\ Len(last.returned) >= k - 1
           /\ SubSeq(last.returned, 1, k - 1) = SubSeq(last.queued, 1, k - 1)
           /\ last.converted \subseteq {last.queued[k]}
           /\ \A i \in 1..Len(last.frames) : last.frames[i].data \in {0, last.queued[k]}

C5_Witness ==
    /\ last.op = "process"
    /\ Len(last.queued) = MaxQueue
    /\ MaxQueue >= 2
    /\ last.converted = {last.queued[MaxQueue]}
    /\ Len(last.frames) = 1
    /\ last.frames[1].data = last.queued[MaxQueue]

Occurrences(seq, x) == Cardinality({i \in 1..Len(seq) : seq[i] = x})

C7_NoFrameBeforeNegotiation ==
    (last.op = "process" /\ ~last.negotiated)
    => /\ last.frames = << >>
       /\ obs_pipewire_stream_get_width(stream) = 0
       /\ obs_pipewire_stream_get_height(stream) = 0

\* C8: render draws a subregion exactly when the crop is valid and shifted or
\* narrower or lower than the negotiated frame; a valid crop at (0,0) of the
\* negotiated size is drawn whole, the same crop at x = 10 as a subregion
C8_EffectiveCrop ==
    (last.op = "render" /\ stream.texture # "null")
    => /\ Len(last.draws) >= 1
       /\ (last.draws[1].call = "gs_draw_sprite_subregion")
          <=> (/\ stream.crop.valid
               /\ \/ stream.crop.x # 0
                  \/ stream.crop.y # 0
                  \/ stream.crop.width < stream.format.width
                  \/ stream.crop.height < stream.format.height)
       /\ (stream.crop.valid /\ stream.crop.y = 0
           /\ stream.crop.width = stream.format.width
           /\ stream.crop.height = stream.format.height)
          => /\ stream.crop.x = 0 => last.draws[1].call = "gs_draw_sprite"
             /\ stream.crop.x = 10 => last.draws[1].call = "gs_draw_sprite_subregion"

C8_Witness ==
    /\ last.op = "render"
    /\ stream.texture # "null"
    /\ stream.negotiated
    /\ stream.crop = [valid |-> TRUE, x |-> 0, y |-> 0,
                      width |-> stream.format.width, height |-> stream.format.height]
    /\ last.draws[1].call = "gs_draw_sprite"

\* C9: after an export that went through, every mapped block has chunk offset
\* 0, as stride the negotiated width times the bytes per pixel of the
\* negotiated format rounded up to a multiple of 4, and as size the negotiated
\* height times that stride
C9_ExportChunk ==
    (last.op = "export" /\ last.exported)
    => LET bpp == lookup_format_info_from_spa_format(stream.format.format).data.bpp
           row == stream.format.width * bpp
       IN  \A i \in 1..Len(last.blocks) :
              last.given[i].mapped
              => /\ last.blocks[i].chunk.offset = 0
                 /\ last.blocks[i].chunk.stride % 4 = 0
                 /\ last.blocks[i].chunk.stride >= row
                 /\ last.blocks[i].chunk.stride < row + 4
                 /\ last.blocks[i].chunk.size
                       = stream.format.height * last.blocks[i].chunk.stride

C9_Witness ==
    /\ last.op = "export"
    /\ last.exported
    /\ stream.format.format = "YUY2"
    /\ stream.format.width = 1
    /\ stream.format.height = MaxDim
    /\ Len(last.blocks) = 2
    /\ last.given[1].mapped
    /\ ~last.given[2].mapped
    /\ last.blocks[1].chunk = [offset |-> 0, stride |-> 4, size |-> 4 * MaxDim]
    /\ last.blocks[2] = last.given[2]

\* the colour space and range a raw frame is rendered with, given the range
\* an unrecognised colour range is mapped to
ColourMapping(frame, format, unrecognised) ==
    /\ frame.colorspace = (CASE format.color_matrix = "BT601" -> "VIDEO_CS_601"
                             [] format.color_matrix = "BT709" -> "VIDEO_CS_709"
                             [] OTHER -> "VIDEO_CS_DEFAULT")
    /\ frame.range = (CASE format.color_range = "0_255" -> "VIDEO_RANGE_FULL"
                        [] format.color_range = "16_235" -> "VIDEO_RANGE_PARTIAL"
                        [] OTHER -> unrecognised)

RawNegotiated(unrecognised) ==
    /\ (last.op = "param_changed" /\ last.sent /\ last.param.media_subtype = "raw")
       => /\ stream.negotiated
          /\ stream.format.width = last.param.width
          /\ stream.format.height = last.param.height
          /\ obs_pipewire_stream_get_width(stream) = last.param.width
          /\ obs_pipewire_stream_get_height(stream) = last.param.height
    /\ (last.op = "process" /\ stream.format.media_subtype = "raw")
       => \A i \in 1..Len(last.frames) :
             /\ last.frames[i].width = stream.format.width
             /\ last.frames[i].height = stream.format.height
             /\ ColourMapping(last.frames[i], stream.format, unrecognised)

\* C10 as stated: after a raw param_changed the negotiated width and height
\* are the parsed size, and frames are rendered with BT601 -> 601, BT709 ->
\* 709, RGB or unrecognised -> default colour space, 0-255 -> FULL, 16-235 ->
\* PARTIAL, unrecognised range -> FULL
C10_ColourMappingFull == RawNegotiated("VIDEO_RANGE_FULL")

\* C10 amended: as above, but an unrecognised colour range is mapped to
\* VIDEO_RANGE_DEFAULT, the range the host falls back to, not to FULL
C10_ColourMappingDefault == RawNegotiated("VIDEO_RANGE_DEFAULT")

C10_Witness ==
    /\ last.op = "process"
    /\ stream.format.media_subtype = "raw"
    /\ stream.format.color_matrix = "BT2020"
    /\ stream.format.color_range = "UNKNOWN"
    /\ Len(last.frames) = 1
    /\ last.frames[1].range = "VIDEO_RANGE_DEFAULT"
    /\ last.frames[1].width = MaxDim

(***************************************************************************)
(* Claims on the session.                                                  *)
(***************************************************************************)
TornDownOnce(e) ==
    session.engines[e].registered =>
        /\ session.engines[e].teardowns = 1
        /\ ~session.engines[e].allocated
        /\ session.engines[e].native = "destroyed"

\* C11: obs_pipewire_destroy tears down every engine registered with the
\* session, each exactly once, before it stops the processing thread and
\* releases the connection; no engine is ever torn down twice, and for every
\* number of registered engines the call comes to its end with an empty
\* engine collection.
C11_DestroyTearsDownAll ==
    /\ [](/\ \A e \in Streams : session.engines[e].teardowns <= 1
          /\ session.thread_loop # "running" =>
                 /\ session.streams = << >>
                 /\ \A e \in Streams : TornDownOnce(e))
    /\ (session.host.pc = "destroy_loop") ~>
           (session.host.pc = "gone" /\ session.streams = << >>)

C11_Witness ==
    /\ session.host.pc = "gone"
    /\ session.host.ret = "destroy_loop"
    /\ \A e \in Streams : session.engines[e].registered
\* C12 as stated: obs_pipewire_roundtrip returns only after the processing
\* thread has delivered the done event for the sync marker this call issued;
\* no other event makes it return.
C12_ReturnsOnlyAfterOwnDone ==
    last.op = "roundtrip" => (last.done_delivered /\ last.woken_by = "done")

\* C12: obs_pipewire_roundtrip returns only after the processing thread has
\* signalled the loop during its wait: in on_core_done_cb for the done event
\* of the sync marker this call issued, or in on_core_error_cb for a core
\* error; a done event for another seq does not make it return.
C12_ReturnsAfterOwnDoneOrError ==
    last.op = "roundtrip" =>
        \/ last.woken_by = "done" /\ last.done_delivered
        \/ last.woken_by = "error"

\* a second round trip returns on its own done event while the done event of
\* the first, given up on a core error, had still been on its way
C12_Witness ==
    /\ last.op = "roundtrip"
    /\ last.seq = 2
    /\ last.woken_by = "done"
    /\ last.done_delivered
    /\ session.pending = {}
    /\ \E e \in Streams : session.engines[e].registered
\* the calls that touch the native connection or a native stream
ConnectionCalls ==
    {"pw_loop_add_event", "pw_stream_new", "pw_stream_add_listener",
     "pw_stream_connect", "pw_stream_set_active", "pw_stream_disconnect",
     "pw_stream_destroy", "pw_core_sync"}

\* C13: every call a public operation (connect_stream, roundtrip, show, hide,
\* engine destroy) makes on the native connection or stream is made while the
\* host thread holds the session-wide thread-loop lock.
C13_NativeCallsUnderLock ==
    \A i \in 1..Len(session.natives) :
        session.natives[i].call \in ConnectionCalls => session.natives[i].locked
\* C14: the teardown of an async engine delivers exactly one null frame to
\* the host sink, and no frame of that engine reaches the sink after the
\* null, however the teardown interleaves with a process callback.
C14_NoFrameAfterNull ==
    \A e \in Streams :
        LET sink == session.engines[e].sink
        IN  /\ session.engines[e].teardowns > 0 /\ session.engines[e].async =>
                   Cardinality({i \in 1..Len(sink) : sink[i] = "null"}) = 1
            /\ \A i \in 1..Len(sink) : \A j \in (i + 1)..Len(sink) :
                   sink[i] = "null" => sink[j] # "frame"
\* C15: engine teardown called with a null engine reference returns without
\* reading or changing any state, in every adapter's destroy.
C15_NullDestroyIsNoop ==
    (last.op = "destroy" /\ last.null) =>
        /\ ~last.crashed
        /\ ~last.changed /\ ~last.freed /\ last.frames = << >>
\* C16: a param_changed handler sets negotiated to true only when sending the
\* parameter set back (pw_stream_update_params) succeeded; when the send
\* fails, negotiated keeps its previous value.
C16_NegotiatedOnlyAfterSend ==
    (last.op = "param_changed" /\ last.sent /\ ~last.send_ok) =>
        stream.negotiated = last.negotiated
\* C17: when decoder initialisation fails during an mjpg or h264
\* param_changed, no parameter set is sent back and the engine is not
\* negotiated afterwards: its width and height queries return 0.
C17_DecoderInitFailureAborts ==
    (last.op = "param_changed" /\ last.id = "Format" /\ Compressed(last.param)
     /\ last.fail_at # "none") =>
        /\ ~last.sent
        /\ ~stream.negotiated
        /\ obs_pipewire_stream_get_width(stream) = 0
        /\ obs_pipewire_stream_get_height(stream) = 0
\* C18: when the decoder fails on a compressed buffer, process emits no frame
\* for that buffer and leaves the negotiated format and the negotiated flag
\* unchanged.
C18_DecodeFailureEmitsNothing ==
    (last.op = "process" /\ last.ended /\ last.decoder_ran /\ last.decoder_ret < 0) =>
        /\ last.frames = << >>
        /\ stream.format = last.format
        /\ stream.negotiated = last.negotiated
\* C19: when the server version string cannot be parsed as major.minor.micro
\* (a string with only one or two numeric fields included), the session's
\* server version is 0.0.0, so that every version-gated feature is disabled.
C19_UnparsedVersionIsZero ==
    (last.op = "core_info" /\ ~last.ok) =>
        /\ server_version = << 0, 0, 0 >>
        /\ ~check_pw_version(server_version, 0, 3, 24)
        /\ ~check_pw_version(server_version, 0, 3, 33)
        /\ ~check_pw_version(server_version, 0, 3, 40)
\* C20: obs_pipewire_connect_stream adds the engine to the session's
\* collection exactly when it reports success; when it fails (building the
\* proposals fails) the engine is not in the collection, and in both cases
\* the session lock has been released.
C20_RegisteredIffConnected ==
    last.op = "connect_stream" =>
        /\ last.ok <=> (\E i \in 1..Len(session.streams) : session.streams[i] = last.e)
        /\ last.ok <=> session.engines[last.e].registered
        /\ Cardinality({i \in 1..Len(session.streams) : session.streams[i] = last.e}) <= 1
        /\ session.lock = "free"

\* a connect that failed after the connect of another engine had succeeded
C20_Witness ==
    /\ last.op = "connect_stream"
    /\ ~last.ok
    /\ session.streams = << 1 >>
    /\ last.e = 2
    /\ session.lock = "free"
\* C21: when session creation fails (the processing thread cannot be started,
\* or the core connection cannot be made) it returns no session and leaves
\* nothing of it alive: the processing thread is not running and the session
\* lock is not held.
C21_FailedCreateLeavesNothing ==
    (last.op = "create" /\ ~last.ok) =>
        /\ ~session.created
        /\ session.thread_loop # "running"
        /\ session.lock = "free"
\* C22: build_format_params emits a modifier-qualified proposal for an entry
\* exactly when the server version is >= 0.3.33 and the entry's modifier set
\* is non-empty; the modifier choice of that proposal has the entry's first
\* modifier as preferred value and offers exactly the entry's modifiers, in
\* their order; with an older server only plain proposals are emitted.
C22_ModifierProposalPerEntry ==
    (last.op = "build" /\ last.result.ok) =>
        LET p == last.result.params
            f == last.f_info
            qualified == {i \in 1..Len(p) : p[i].has_modifier}
            holding == {i \in 1..Len(f) : Len(f[i].modifiers) > 0}
            at(i) == Cardinality({j \in holding : j <= i})
        IN  IF check_pw_version(server_version, 0, 3, 33)
            THEN /\ Cardinality(qualified) = Cardinality(holding)
                 /\ \A i \in holding :
                       /\ p[at(i)].has_modifier
                       /\ p[at(i)].spa_format = f[i].spa_format
                       /\ p[at(i)].modifier_choice[1] = f[i].modifiers[1]
                       /\ SubSeq(p[at(i)].modifier_choice, 2,
                                 Len(p[at(i)].modifier_choice)) = f[i].modifiers
            ELSE qualified = {}

\* a build on a server >= 0.3.33 for an entry without modifiers followed by
\* one whose two modifiers differ
C22_Witness ==
    /\ last.op = "build" /\ last.result.ok
    /\ check_pw_version(server_version, 0, 3, 33)
    /\ Len(last.f_info) = 2
    /\ Len(last.f_info[1].modifiers) = 0
    /\ Len(last.f_info[2].modifiers) = 2
    /\ last.f_info[2].modifiers[1] # last.f_info[2].modifiers[2]
    /\ Len(last.result.params) = 3
\* the array v without the elements equal to modifier, the others in order
RECURSIVE Without(_, _)
Without(v, modifier) ==
    IF Len(v) = 0 THEN << >>
    ELSE IF v[1] = modifier THEN Without(Tail(v), modifier)
    ELSE << v[1] >> \o Without(Tail(v), modifier)

\* C23: on a server >= 0.3.40, remove_modifier_from_format removes every
\* occurrence of the given modifier from the entry of the given format and
\* leaves unchanged that entry's other modifiers (and their order) and all
\* entries of other formats; removing a modifier the entry does not hold
\* changes nothing.
C23_RemovesOnlyThatModifier ==
    [][(last'.op = "remove" /\ check_pw_version(server_version, 0, 3, 40)) =>
          /\ ~crashed'
          /\ Len(stream'.format_info) = Len(stream.format_info)
          /\ \A i \in 1..Len(stream.format_info) :
                LET old == stream.format_info[i]
                    new == stream'.format_info[i]
                IN  /\ new.spa_format = old.spa_format
                    /\ new.drm_format = old.drm_format
                    /\ new.modifiers =
                           IF old.spa_format = last'.spa_format
                           THEN Without(old.modifiers, last'.modifier)
                           ELSE old.modifiers]_vars

\* a removal on a server >= 0.3.40 from a list of two entries, of a modifier
\* that the entry held in front of another one
C23_Witness ==
    /\ last.op = "remove" /\ last.count = 1
    /\ check_pw_version(server_version, 0, 3, 40)
    /\ Len(stream.format_info) = 2
    /\ \E v \in last.held : Len(v) = 2 /\ v[1] = last.modifier /\ v[2] # last.modifier
    /\ \E i \in 1..2 : /\ stream.format_info[i].spa_format = last.spa_format
                       /\ Len(stream.format_info[i].modifiers) = 1
    /\ \E i \in 1..2 : /\ stream.format_info[i].spa_format # last.spa_format
                       /\ Len(stream.format_info[i].modifiers) = 2
\* the server is 0.3.24 or newer
ImplicitDmaBufVersion ==
    \/ server_version[1] > 0
    \/ server_version[1] = 0 /\ server_version[2] > 3
    \/ server_version[1] = 0 /\ server_version[2] = 3 /\ server_version[3] >= 24

\* C24: the buffer-type mask sent in param_changed for a raw format always
\* contains plain memory, and contains the DMA-BUF type exactly when the
\* engine is a display engine and either the negotiated param carries a
\* modifier property or the server version is >= 0.3.24; the async and
\* export engines never announce DMA-BUF, whatever the version.
C24_BufferTypesOfRawFormat ==
    (last.op = "param_changed" /\ last.sent /\ last.param.media_subtype = "raw") =>
        /\ pw.reply.buffer_types \subseteq {"MemPtr", "DmaBuf"}
        /\ "MemPtr" \in pw.reply.buffer_types
        /\ "DmaBuf" \in pw.reply.buffer_types <=>
               /\ stream.impl \in {"sync", "video_sync"}
               /\ last.param.has_modifier \/ ImplicitDmaBufVersion

\* a display engine on a server older than 0.3.24 answers a raw format that
\* has no modifier property
C24_Witness ==
    /\ last.op = "param_changed" /\ last.sent /\ last.param.media_subtype = "raw"
    /\ stream.impl = "video_sync"
    /\ ~ImplicitDmaBufVersion /\ ~last.param.has_modifier
    /\ pw.reply.buffer_types = {"MemPtr"}
\* C25: for a motion-jpeg or h264 param_changed, the buffer-type mask
\* announced in the response parameter set is exactly plain memory (MemPtr),
\* independent of any earlier negotiation and of the server version.
C25_CompressedAnnouncesMemPtr ==
    (last.op = "param_changed" /\ last.sent /\ Compressed(last.param)) =>
        pw.reply.buffer_types = {"MemPtr"}
\* the params a handler of the engine kind impl ignores
Ignored(impl, id, param) ==
    \/ param.null
    \/ id # "Format"
    \/ ~param.parse_ok
    \/ param.media_type # "video"
    \/ param.media_subtype \notin (IF impl = "video_async" THEN {"raw", "mjpg", "h264"}
                                   ELSE {"raw"})

\* C26: a param_changed that is ignored (null param, id other than Format,
\* media kind not video, unsupported subtype, or unparsable format) changes
\* nothing: the negotiated format, the negotiated flag and the results of the
\* width and height queries are the same as before it, and no parameter set
\* is sent.
C26_IgnoredParamChangesNothing ==
    [][(last'.op = "param_changed" /\ Ignored(stream.impl, last'.id, last'.param)) =>
          /\ ~last'.sent
          /\ stream'.format = stream.format
          /\ stream'.negotiated = stream.negotiated
          /\ obs_pipewire_stream_get_width(stream') = obs_pipewire_stream_get_width(stream)
          /\ obs_pipewire_stream_get_height(stream') = obs_pipewire_stream_get_height(stream)
      ]_vars

Uploadable(spa_format) ==
    LET found == lookup_format_info_from_spa_format(spa_format)
    IN  found.found /\ found.data.gs_format # "GS_UNKNOWN"

CropOf(meta) ==
    [valid |-> TRUE, x |-> meta.x, y |-> meta.y, width |-> meta.width,
     height |-> meta.height]

CropMetaValid(meta) == meta.present /\ meta.width # 0 /\ meta.height # 0

\* C27 as stated: after process has handled a buffer on a display engine, the
\* crop region is the buffer's crop meta when that is present and valid and
\* is invalid otherwise, whatever the payload and the pixel format
C27_CropFollowsEveryBuffer ==
    (last.op = "process" /\ last.latest # 0 /\ last.ended /\ stream.impl = "sync")
    => IF CropMetaValid(last.buf.crop)
       THEN stream.crop = CropOf(last.buf.crop)
       ELSE ~stream.crop.valid

\* C27: after process has handled a buffer with a payload in a format the
\* display engine can upload, the crop region is the buffer's crop meta when
\* that is present and valid and is invalid otherwise; a buffer without a
\* payload or in any other format leaves the crop region as it was
C27_CropFollowsUploadedBuffer ==
    [][(last'.op = "process" /\ last'.latest # 0 /\ last'.ended /\ stream.impl = "sync")
       => IF last'.buf.size # 0 /\ Uploadable(stream.format.format)
          THEN IF CropMetaValid(last'.buf.crop)
               THEN stream'.crop = CropOf(last'.buf.crop)
               ELSE ~stream'.crop.valid
          ELSE stream'.crop = stream.crop
      ]_vars

\* a buffer without a payload carries a valid crop meta and the engine still
\* holds the crop of an earlier buffer
C27_Witness ==
    /\ last.op = "process" /\ last.latest # 0 /\ stream.impl = "sync"
    /\ last.buf.size = 0
    /\ CropMetaValid(last.buf.crop)
    /\ stream.crop.valid
    /\ stream.crop # CropOf(last.buf.crop)

CursorMetaValid(meta) == meta.present /\ meta.id # 0

\* the record embeds a bitmap of positive size in a format with a texture format
BitmapUsable(meta) ==
    /\ meta.bitmap.present
    /\ meta.bitmap.width > 0 /\ meta.bitmap.height > 0
    /\ Uploadable(meta.bitmap.format)

\* the cursor texture after the step is a new one made of the record's bitmap
\* if rebuilt, and is the texture the engine had, with its hotspot and size,
\* if not
CursorTextureStep(rebuilt, meta, before, after) ==
    IF rebuilt
    THEN /\ after.texture = "memptr"
         /\ after.hotspot_x = meta.hotspot_x /\ after.hotspot_y = meta.hotspot_y
         /\ after.width = meta.bitmap.width /\ after.height = meta.bitmap.height
    ELSE /\ after.texture = before.texture
         /\ after.hotspot_x = before.hotspot_x /\ after.hotspot_y = before.hotspot_y
         /\ after.width = before.width /\ after.height = before.height

\* C28 as stated: process rebuilds the cursor texture exactly when the cursor
\* is shown, the record is valid and its bitmap is usable, leaves it untouched
\* otherwise, and takes the position from every valid record
C28_CursorPositionFromEveryValidRecord ==
    [][(last'.op = "process" /\ last'.latest # 0 /\ last'.ended /\ stream.impl = "sync")
       => LET meta == last'.buf.cursor
          IN  /\ CursorTextureStep(stream.cursor.visible /\ CursorMetaValid(meta)
                                      /\ BitmapUsable(meta),
                                   meta, stream.cursor, stream'.cursor)
              /\ CursorMetaValid(meta)
                 => stream'.cursor.x = meta.x /\ stream'.cursor.y = meta.y
      ]_vars

\* C28: process rebuilds the cursor texture exactly when the cursor is shown,
\* the record is valid and its bitmap is usable, and leaves it untouched
\* otherwise; it takes the position from a valid record while the cursor is
\* shown and keeps the old position while it is hidden or the record is not
\* valid
C28_CursorPositionWhileShown ==
    [][(last'.op = "process" /\ last'.latest # 0 /\ last'.ended /\ stream.impl = "sync")
       => LET meta == last'.buf.cursor
          IN  /\ CursorTextureStep(stream.cursor.visible /\ CursorMetaValid(meta)
                                      /\ BitmapUsable(meta),
                                   meta, stream.cursor, stream'.cursor)
              /\ stream'.cursor.valid = CursorMetaValid(meta)
              /\ IF stream.cursor.visible /\ CursorMetaValid(meta)
                 THEN stream'.cursor.x = meta.x /\ stream'.cursor.y = meta.y
                 ELSE stream'.cursor.x = stream.cursor.x
                      /\ stream'.cursor.y = stream.cursor.y
      ]_vars

\* the cursor is hidden, the buffer carries a valid record with a usable
\* bitmap, and the engine keeps the texture and the position of an earlier
\* record
C28_Witness ==
    /\ last.op = "process" /\ last.latest # 0 /\ stream.impl = "sync"
    /\ ~stream.cursor.visible
    /\ CursorMetaValid(last.buf.cursor) /\ BitmapUsable(last.buf.cursor)
    /\ stream.cursor.texture = "memptr"
    /\ stream.cursor.width # last.buf.cursor.bitmap.width
    /\ stream.cursor.x # last.buf.cursor.x

Calls(draws, call) == { i \in 1..Len(draws) : draws[i].call = call }

\* C29: render issues no call without a display texture; otherwise its first
\* call draws the crop rectangle when the crop is valid and shifted or smaller
\* than the frame and the whole texture when not, and the cursor sprite
\* follows, between one gs_matrix_push and one gs_matrix_pop, exactly when the
\* cursor is shown, valid and has a texture; pushes and pops always pair up
C29_RenderDraws ==
    last.op = "render"
    => LET draws == last.draws
           crop == stream.crop
           cropped == crop.valid /\ (crop.x # 0 \/ crop.y # 0
                                     \/ crop.width < stream.format.width
                                     \/ crop.height < stream.format.height)
           with_cursor == stream.cursor.visible /\ stream.cursor.valid
                          /\ stream.cursor.texture # "null"
       IN  /\ Cardinality(Calls(draws, "gs_matrix_push"))
              = Cardinality(Calls(draws, "gs_matrix_pop"))
           /\ IF stream.texture = "null" THEN draws = << >>
              ELSE /\ draws[1] = IF cropped
                                 THEN GsCall("gs_draw_sprite_subregion", crop.x, crop.y,
                                             crop.width, crop.height)
                                 ELSE GsCall("gs_draw_sprite", 0, 0, 0, 0)
                   /\ IF with_cursor
                      THEN /\ Len(draws) = 5
                           /\ draws[2].call = "gs_matrix_push"
                           /\ draws[3] = GsCall("gs_matrix_translate3f",
                                                stream.cursor.x - stream.cursor.hotspot_x,
                                                stream.cursor.y - stream.cursor.hotspot_y,
                                                0, 0)
                           /\ draws[4] = GsCall("gs_draw_sprite", 0, 0,
                                                stream.cursor.width, stream.cursor.height)
                           /\ draws[5].call = "gs_matrix_pop"
                      ELSE Len(draws) = 1

\* a cropped frame is drawn with the cursor on it, the hotspot taken off the
\* position
C29_Witness ==
    /\ last.op = "render"
    /\ Len(last.draws) = 5
    /\ last.draws[1].call = "gs_draw_sprite_subregion"
    /\ stream.cursor.hotspot_x # 0
    /\ last.draws[3].x = stream.cursor.x - stream.cursor.hotspot_x

\* C30: the export engine starts with sequence number 0; a step that stamps a
\* header writes the engine's number into it and advances the number by one,
\* and no other step changes the number, so the stamped values are 0, 1, 2,
\* ... without a gap and without a repeat
C30_SequenceNumbers ==
    /\ stream.impl = "video_output" => stream.seq = 0
    /\ [][stream.impl = "video_output"
          => IF last'.op = "export" /\ last'.stamped
             THEN last'.h_seq = stream.seq /\ stream'.seq = stream.seq + 1
             ELSE stream'.seq = stream.seq
         ]_vars

\* the second header the engine stamps carries 1
C30_Witness ==
    /\ last.op = "export" /\ last.stamped
    /\ last.h_seq = 1
    /\ stream.seq = 2

\* C31: export_frame on a stream that is not streaming, or with a negotiated
\* format the catalog does not hold, hands every data block back as it was
\* given, stamps no header, copies nothing and leaves the engine, its
\* sequence number included, as it was
C31_ExportTurnedDown ==
    [][(last'.op = "export"
        /\ (pw.state # "streaming"
            \/ ~lookup_format_info_from_spa_format(stream.format.format).found))
       => /\ ~last'.exported
          /\ ~last'.stamped
          /\ last'.blocks = last'.given
          /\ stream' = stream
          /\ pw' = pw
      ]_vars

\* a streaming export engine on a format outside the catalog is handed a
\* buffer with a header and a mapped block, after it has stamped one before
C31_Witness ==
    /\ last.op = "export"
    /\ pw.state = "streaming"
    /\ stream.format.format = "NV12"
    /\ last.header
    /\ \E i \in 1..Len(last.given) : last.given[i].mapped
    /\ stream.seq = 1

\* C32: a process call that signals the renegotiation ends, has queued its
\* buffer back and has sent no proposals; proposals change only in a later
\* step of their own, the renegotiation event, which runs only when it was
\* signalled
C32_RenegotiationDeferred ==
    [][/\ (last'.op = "process" /\ last'.signalled)
          => /\ last'.ended
             /\ \E i \in 1..Len(last'.returned) : last'.returned[i] = last'.latest
             /\ pw'.reneg_signalled
             /\ pw'.enum_params = pw.enum_params
             /\ pw'.sent_by = pw.sent_by
       /\ (pw'.enum_params # pw.enum_params \/ pw'.sent_by # pw.sent_by)
          => /\ last'.op = "renegotiate"
             /\ pw.reneg_signalled
             /\ stream' = stream
      ]_vars

\* the renegotiation event has run after an import failure and has sent
\* proposals that differ from the ones the engine connected with
C32_Witness ==
    /\ last.op = "renegotiate"
    /\ last.sent
    /\ pw.sent_by = "renegotiate"
    /\ pw.enum_params # build_format_params(
                            CHOOSE l \in SyncLists : Len(l) = Len(stream.format_info),
                            server_version, TRUE).params
    /\ ~pw.reneg_signalled

\* C33: a callback of the loop never runs teardown_pipewire, whose wait and
\* stop block on the thread of the loop, also when the renegotiation cannot
\* build its proposals; and the thread loop is not locked or unlocked once it
\* was torn down
C33_TeardownOffTheLoop ==
    (last.op = "renegotiate" /\ last.thread = "loop")
    => /\ ~last.teardown
       /\ ~last.unlock_after_teardown

\* the number of obs_enter_graphics less the number of obs_leave_graphics
\* among the first n calls
RECURSIVE Depth(_, _)
Depth(calls, n) ==
    IF n = 0 THEN 0
    ELSE Depth(calls, n - 1)
         + (IF calls[n] = "obs_enter_graphics" THEN 1
            ELSE IF calls[n] = "obs_leave_graphics" THEN -1 ELSE 0)

\* every call sits inside an enter/leave pair and the pairs are closed
Bracketed(calls) ==
    /\ Depth(calls, Len(calls)) = 0
    /\ \A n \in 1..Len(calls) :
          /\ Depth(calls, n) >= 0
          /\ calls[n] \notin {"obs_enter_graphics", "obs_leave_graphics"}
             => Depth(calls, n) = 1

TextureCalls(calls, which) ==
    { n \in 1..Len(calls) :
         calls[n] \notin {"obs_enter_graphics", "obs_leave_graphics"}
         /\ \E k \in 1..Len(calls[n]) :
               SubSeq(calls[n], k, Len(calls[n])) = which }

RECURSIVE IsSubSeq(_, _)
IsSubSeq(v, w) ==
    IF v = << >> THEN TRUE
    ELSE IF w = << >> THEN FALSE
    ELSE IF Head(v) = Head(w) THEN IsSubSeq(Tail(v), Tail(w))
    ELSE IsSubSeq(v, Tail(w))

\* the same entries in the same order, each with modifiers it already had
Shrinks(old, new) ==
    /\ Len(new) = Len(old)
    /\ \A i \in 1..Len(old) :
          /\ new[i].spa_format = old[i].spa_format
          /\ new[i].drm_format = old[i].drm_format
          /\ IsSubSeq(new[i].modifiers, old[i].modifiers)

SpecRenegotiationFair == SpecRenegotiation /\ WF_vars(Renegotiate)

\* the format the producer streams in is one of the proposals with a modifier
\* that the engine sent last
StreamsOfferedModifier ==
    \E o \in Offers(pw.enum_params) :
        /\ o.has_modifier
        /\ o.format = stream.format.format
        /\ o.modifier = stream.format.modifier

\* a process step of a display engine in which the import of a DMA-BUF of
\* such a format fails
ImportFailure ==
    /\ StreamsOfferedModifier
    /\ last'.op = "process" /\ last'.path = "import failed" /\ ~crashed'

NoModifierProposal ==
    \A i \in 1..Len(pw.enum_params) : ~pw.enum_params[i].has_modifier

\* C36: an engine whose DMA-BUF imports fail again and again comes to offer
\* no proposal with a modifier and stays there, whatever the version of the
\* server
C36_RenegotiationConverges ==
    ([]<><<ImportFailure>>_vars) => <>[]NoModifierProposal

\* video_stream_param_changed of the async adapter gets as far as
\* pipewire_init_decoder
reaches_init_decoder(id, param) ==
    /\ ~param.null /\ id = "Format"
    /\ spa_format_parse_ok(param)
    /\ param.media_type = "video"
    /\ param.media_subtype \in {"mjpg", "h264"}
    /\ param.subtype_ok

\* pipewire_init_decoder assigns the result of avcodec_alloc_context3,
\* av_packet_alloc and av_frame_alloc to the fields without looking at what
\* they hold: a context, packet or frame still held is lost without a release
init_decoder_overwrites(decoder, subtype, fail_at) ==
    /\ subtype \in {"mjpg", "h264"}
    /\ fail_at # "codec"
    /\ \/ decoder.context
       \/ decoder.packet /\ fail_at # "context"
       \/ decoder.frame /\ fail_at \notin {"context", "packet"}

DecoderHeld(decoder) == decoder.context \/ decoder.packet \/ decoder.frame

\* C37: no param_changed of the async adapter initialises a decoder over one
\* that is still held, and when teardown has freed the engine no decoder is
\* left unreleased
C37_DecoderReleasedOnce ==
    [][/\ (/\ last'.op = "param_changed" /\ stream.impl = "video_async"
           /\ reaches_init_decoder(last'.id, last'.param))
          => ~init_decoder_overwrites(stream.decoder, last'.param.media_subtype,
                                      last'.fail_at)
       /\ (last'.op = "destroy" /\ last'.impl = "video_async" /\ last'.freed)
          => ~DecoderHeld(stream'.decoder)]_vars

\* C38: an engine that is negotiated stays negotiated, whatever parameter
\* arrives afterwards and whether or not a renegotiation is pending
C38_NegotiatedIsSticky == [][stream.negotiated => stream'.negotiated]_vars

\* a negotiated engine with a renegotiation pending has just turned a
\* parameter down
C38_Witness ==
    /\ stream.negotiated /\ pw.reneg_signalled
    /\ last.op = "param_changed" /\ last.negotiated /\ ~last.sent
    /\ last.id = "Format" /\ ~last.param.null

\* C39: every chunk that export_frame declares fits in the buffer size the
\* export adapter announced for the format
C39_ChunkFitsAnnouncedSize ==
    (last.op = "export" /\ last.exported /\ pw.reply.sent) =>
        \A i \in 1..Len(last.blocks) :
            last.given[i].mapped => last.blocks[i].chunk.size <= pw.reply.size

\* the tick that has just ended created the texture, from the negotiated size
TextureOfThisTick ==
    /\ last.op = "process" /\ last.ended
    /\ last.path \in {"imported", "uploaded"}
    /\ stream.texture # "null"

\* the size of what render draws: gs_draw_sprite_subregion draws the region it
\* is given, gs_draw_sprite with no size draws the whole texture
DrawnSize(s) ==
    LET call == obs_pipewire_stream_video_render(s)[1]
    IN  IF call.call = "gs_draw_sprite_subregion"
        THEN << call.width, call.height >>
        ELSE << s.format.width, s.format.height >>

\* C40: a negotiated display engine that holds a texture reports as its width
\* and height the size of the region render draws
C40_ReportedSizeIsDrawnSize ==
    (Display(stream.impl) /\ stream.negotiated /\ TextureOfThisTick) =>
        << obs_pipewire_stream_get_width(stream),
           obs_pipewire_stream_get_height(stream) >> = DrawnSize(stream)

====
